---- MODULE Spec2Model ----
(***************************************************************************)
(* nhk-radio-player: the interactive live-stream playback engine.          *)
(*                                                                         *)
(* Three concurrent contexts are modelled:                                 *)
(*   - the key-event loop of run_interactive_player (the only writer of    *)
(*     the watch channel holding the desired channel),                     *)
(*   - the tokio task run_stream_loop (poll / key / segment pipeline),     *)
(*   - the OS thread run_audio_thread (mpsc receiver feeding the sink).    *)
(* The HTTP server, the AES/AAC collaborators and the audio device are the *)
(* environment: each call returns one of the outcomes its signature allows.*)
(***************************************************************************)
EXTENDS Integers, Sequences, FiniteSets, TLC

\* ------------------------------------------------------------------ bounds
MaxSeg == 2          \* distinct segment ids the server lists per channel
MaxQueue == 2        \* buffers in flight on the audio channel

\* --------------------------------------------------------------- constants
KEY_LEN == 16        \* client.rs fetch_key / crypto.rs decrypt_segment

\* ------------------------------------------------------------ Option<T>
None == <<>>
Some(x) == <<x>>
IsSome(o) == Len(o) = 1
Unwrap(o) == o[1]

\* ------------------------------------------------------------ ChannelKind
ChannelKind == {"R1", "R2", "Fm"}

\* A next that swaps R1 and R2 and never reaches Fm.
next_SwapOnly(c) == CASE c = "R1" -> "R2" [] c = "R2" -> "R1" [] c = "Fm" -> "Fm"

next(c) == CASE c = "R1" -> "R2" [] c = "R2" -> "Fm" [] c = "Fm" -> "R1"

prev(c) == CASE c = "R1" -> "Fm" [] c = "R2" -> "R1" [] c = "Fm" -> "R2"

\* A playlist URL: the channel it belongs to and how many master->variant
\* hops it is away from the configured one.
get_url(c) == [ch |-> c, hop |-> 0]

\* ------------------------------------------------------- the HTTP server
\* The media playlists the server can hand out: a live window, the segments
\* lo..hi of the feed in order (none when lo > hi).  An entry is the
\* segment's id and whether an #EXT-X-KEY with a URI applies to it.
Window(lo, n, k) == [i \in 1..n |-> [id |-> lo + i - 1, keyed |-> k[i]]]

MediaTexts ==
    UNION {UNION {{Window(lo, n, k) : k \in [1..n -> BOOLEAN]} :
                     n \in 0..(MaxSeg - lo + 1)} : lo \in 1..MaxSeg}

\* What the server keeps behind each playlist URL.  R1's configured URL is
\* a master playlist whose variant is a media playlist, R2's is a media
\* playlist, and Fm's is a master playlist whose variant is a master
\* playlist again.
UrlKind(url) ==
    CASE url.ch = "R1" -> IF url.hop = 0 THEN "master" ELSE "media"
      [] url.ch = "R2" -> "media"
      [] url.ch = "Fm" -> IF url.hop <= 1 THEN "master" ELSE "media"

\* What a GET of a playlist URL can produce: a network error, text that is
\* no playlist, or the playlist behind the URL (a master playlist may list
\* no variant).
M3u8Responses(url) ==
    {[kind |-> "neterr", variants |-> 0, entries |-> <<>>],
     [kind |-> "garbage", variants |-> 0, entries |-> <<>>]}
    \cup (IF UrlKind(url) = "master"
          THEN {[kind |-> "master", variants |-> n, entries |-> <<>>] : n \in {0, 1}}
          ELSE {[kind |-> "media", variants |-> 0, entries |-> e] : e \in MediaTexts})

\* What a GET of a key URL can produce: a network error (-1) or a body of
\* some length.
KeyResponses == {-1, 0, 15, 16, 17}

\* --------------------------------------------------------------- m3u8.rs
\* normalize_url on the references this server hands out: a segment or key
\* reference resolves inside the directory of the playlist it came from, a
\* variant reference resolves to the next playlist of the same channel.
SegmentUrl(base_url, id) == <<base_url.ch, id>>

KeyUrl(base_url) == <<base_url.ch, 0>>

VariantUrl(base_url) == [ch |-> base_url.ch, hop |-> base_url.hop + 1]

parse_media_playlist(entries, base_url) ==
    [idx \in 1..Len(entries) |->
        [url |-> SegmentUrl(base_url, entries[idx].id),
         key_url |-> IF entries[idx].keyed THEN Some(KeyUrl(base_url)) ELSE None,
         seq_no |-> idx - 1]]

\* Result<Vec<Segment>>: err is "" on success.
parse_m3u8(content, base_url) ==
    CASE content.kind = "master" /\ content.variants = 0 ->
            [err |-> "No variants found in master playlist", variant |-> None, segs |-> <<>>]
      [] content.kind = "master" /\ content.variants > 0 ->
            [err |-> "Master playlist detected", variant |-> Some(VariantUrl(base_url)),
             segs |-> <<>>]
      [] content.kind = "media" ->
            [err |-> "", variant |-> None, segs |-> parse_media_playlist(content.entries, base_url)]
      [] OTHER ->
            [err |-> "Failed to parse M3U8 playlist", variant |-> None, segs |-> <<>>]

\* -------------------------------------------------------------- client.rs
fetch_m3u8_ok(resp) == resp.kind # "neterr"

fetch_key(resp) == IF resp = KEY_LEN THEN Some(resp) ELSE None

\* -------------------------------------------------------------- player.rs
\* Result<String> as Option: None is Err.
resolve_master_playlist(resp, m3u8_url) ==
    IF ~fetch_m3u8_ok(resp) THEN None
    ELSE LET r == parse_m3u8(resp, m3u8_url)
         IN  IF r.err = "" THEN Some(m3u8_url)
             ELSE IF r.err = "Master playlist detected" /\ IsSome(r.variant)
                  THEN Some(Unwrap(r.variant))
                  ELSE None

\* A PCM buffer is a non-empty sample vector; the model keeps, in place of
\* the samples, the URL of the segment they were decoded from.  vec![] is
\* the empty buffer.
EmptyBuffer == <<>>
Pcm(url) == <<url>>
is_empty(samples) == Len(samples) = 0

\* The channel the CLI starts the session on.
initial_kind == "R1"

SegUrls == ChannelKind \X (1..MaxSeg)

VARIABLES
    \* run_interactive_player
    ui_pc,            \* "loop" | "done"
    ui_channel,       \* state.current_channel
    \* watch channel
    signal,           \* the value held
    changed,          \* has_changed() of the stream loop's receiver
    \* run_stream_loop
    pc,
    current_channel,
    seen_segments,
    resolved_urls,    \* ChannelKind -> Option<url>
    segments,         \* what the for loop has not yet visited
    key,              \* Option<key bytes (their length)>
    \* mpsc audio channel and run_audio_thread
    audio_q,
    a_pc,             \* "acquire" | "retry" | "recv" | "exited"
    sink,             \* buffers queued in the rodio sink, the playing one first
    playing,          \* the sink is not paused
    \* history
    changed_at,       \* where the loop stood when the pending change was written
    overwritten,      \* the pending change replaced one the loop never observed
    coalesced,        \* the adoption just made took the last value of such a burst
    fetches,          \* fetch_segment calls per URL since the channel was adopted
    session_sent,     \* the PCM buffers sent since the channel was adopted
    done,             \* this cycle's visited playlist entries and what became of each
    heard,            \* the non-empty buffers received since the last empty one
    \* decode_aac_to_pcm
    d_pc,             \* "idle" | "probe" | "find_track" | "make" | "loop" | "returned"
    d_input,          \* what Symphonia makes of aac_data
    d_rest,           \* the packets format.next_packet() has not yet returned
    d_pcm_samples,    \* pcm_samples
    d_result,         \* Option<Result<Vec<i16>>>: what the call returned
    \* decrypt_segment
    c_args,           \* Option<the arguments of the last call>
    c_result,         \* Option<what that call returned>
    c_iv,             \* Option<the IV that call handed to the cipher>
    \* normalize_url
    n_args,           \* Option<the arguments of the last call>
    n_result,         \* Option<the string that call returned>
    \* resolve_master_playlist, on the text of URLs and messages
    r_args,           \* Option<the URL and what the server answered>
    r_result,         \* Option<Result<String>>
    \* main and run_cli, the play command
    cli_pc,           \* "start" | "fetch_config" | "for_data" | "fetch_program" | "play_live" | "main" | "exited"
    cli_args,         \* Option<[area, kind]>
    cli_config,       \* Option<fetch_config's Result: the areas of config.stream_url.data>
    cli_rest,         \* the data entries the for loop has not yet visited
    cli_program,      \* Option<fetch_program's Result>
    cli_playing,      \* play_live has been called
    cli_result,       \* Option<run_cli's Result<()>>
    cli_exit,         \* Option<[code, stderr]>
    \* ProgramInfo::from_program
    p_args,           \* Option<the arguments of the last call>
    p_result,         \* Option<the ProgramInfo that call returned>
    \* parse_m3u8, on the text of a media playlist
    m_args,           \* Option<the arguments of the last call>
    m_result,         \* Option<Result<Vec<Segment>>>
    \* run_audio_thread of player.rs and the senders of its channel
    t_pc,             \* "acquire" | "recv" | "exited"
    t_tx,             \* a sender of the audio channel is alive
    t_queue,          \* the buffers in the audio channel
    waiting_for_new_samples,
    t_notified,       \* sends on playback_notify so far
    t_sink,           \* the buffers appended to the sink since its last clear
    t_sent,           \* every buffer sent so far, in order
    t_received,       \* every buffer recv_timeout returned so far, in order
    t_last,           \* what the last recv_timeout returned
    \* the draw loop of run_interactive_player
    app_pc,           \* "setup" | "draw" | "poll" | "handler" | "done"
    app_channel,      \* state.current_channel
    is_loading,       \* state.is_loading
    animation_frame,  \* state.animation_frame
    status_drawn      \* what the last draw put in the status bar

session_vars == <<ui_pc, ui_channel, signal, changed, pc, current_channel, seen_segments,
          resolved_urls, segments, key, audio_q, a_pc, sink, changed_at, overwritten,
          coalesced, fetches, session_sent, done, playing, heard>>
decoder_vars == <<d_pc, d_input, d_rest, d_pcm_samples, d_result>>
crypto_vars == <<c_args, c_result, c_iv>>
url_vars == <<n_args, n_result, r_args, r_result>>
cli_vars == <<cli_pc, cli_args, cli_config, cli_rest, cli_program, cli_playing,
              cli_result, cli_exit>>
info_vars == <<p_args, p_result>>
parse_vars == <<m_args, m_result>>
thread_vars == <<t_pc, t_tx, t_queue, waiting_for_new_samples, t_notified, t_sink, t_sent,
                 t_received, t_last>>
app_vars == <<app_pc, app_channel, is_loading, animation_frame, status_drawn>>
fn_vars == <<decoder_vars, crypto_vars, url_vars, cli_vars, info_vars, parse_vars,
             thread_vars, app_vars>>
vars == <<session_vars, fn_vars>>

ui_vars == <<ui_pc, ui_channel>>
watch_vars == <<signal, changed, changed_at, overwritten>>
stream_vars == <<pc, current_channel, seen_segments, resolved_urls, segments, key>>
audio_vars == <<a_pc, sink, playing, heard>>
hist_vars == <<fetches, session_sent, done>>

\* What channel_rx.has_changed().unwrap_or(false) can return: whether the
\* held value is unobserved, or false once the sender is gone.  The sender
\* is dropped when run_interactive_player returns, some time after the loop
\* was left.
has_changed == IF ui_pc = "done" THEN {changed, FALSE} ELSE {changed}

\* The task has been aborted (player_handle.abort()); it stops at its next
\* await.
abort_requested == ui_pc = "done"

AwaitPoints == {"resolve", "fetch_m3u8", "fetch_key", "fetch_segment", "sleep2", "sleep5"}

Init ==
    /\ ui_pc = "loop"
    /\ ui_channel = initial_kind
    /\ signal = initial_kind
    /\ changed = FALSE
    /\ pc = "start"
    /\ current_channel = initial_kind
    /\ seen_segments = {}
    /\ resolved_urls = [c \in ChannelKind |-> None]
    /\ segments = <<>>
    /\ key = None
    /\ audio_q = <<>>
    /\ a_pc = "acquire"
    /\ sink = <<>>
    /\ playing = TRUE
    /\ heard = <<>>
    /\ changed_at = "none"
    /\ overwritten = FALSE
    /\ coalesced = FALSE
    /\ fetches = [u \in SegUrls |-> 0]
    /\ session_sent = <<>>
    /\ done = <<>>
    /\ d_pc = "idle"
    /\ d_input = None
    /\ d_rest = <<>>
    /\ d_pcm_samples = <<>>
    /\ d_result = None
    /\ c_args = None
    /\ c_result = None
    /\ c_iv = None
    /\ n_args = None
    /\ n_result = None
    /\ r_args = None
    /\ r_result = None
    /\ cli_pc = "start"
    /\ cli_args = None
    /\ cli_config = None
    /\ cli_rest = <<>>
    /\ cli_program = None
    /\ cli_playing = FALSE
    /\ cli_result = None
    /\ cli_exit = None
    /\ p_args = None
    /\ p_result = None
    /\ t_pc = "acquire"
    /\ t_tx = TRUE
    /\ t_queue = <<>>
    /\ waiting_for_new_samples = FALSE
    /\ t_notified = 0
    /\ t_sink = <<>>
    /\ t_sent = <<>>
    /\ t_received = <<>>
    /\ t_last = "none"
    /\ app_pc = "setup"
    /\ app_channel = initial_kind
    /\ is_loading = TRUE
    /\ animation_frame = 0
    /\ status_drawn = "none"
    /\ m_args = None
    /\ m_result = None

\* ------------------------------------------------- run_interactive_player
\* The channel a key selects: '1' '2' '3' name a channel, Left and Right
\* step from the selected one.
KeyTarget(k, cur) ==
    CASE k = "1" -> "R1"
      [] k = "2" -> "R2"
      [] k = "3" -> "Fm"
      [] k = "Left" -> prev(cur)
      [] k = "Right" -> next(cur)

ChannelKeys == {"1", "2", "3", "Left", "Right"}

\* Where run_stream_loop stands, as far as a change of the signal goes:
\* before a segment's has_changed check of this cycle ("segment"), past the
\* last such check with the last segment in flight ("last_segment"), or
\* outside the segment loop ("other").
LoopPhase ==
    CASE pc = "seg" /\ segments # <<>> -> "segment"
      [] pc = "fetch_segment" /\ Len(segments) > 1 -> "segment"
      [] pc = "fetch_segment" /\ Len(segments) = 1 -> "last_segment"
      [] OTHER -> "other"

\* A channel that holds on to a value until it has been observed.
WatchSend_KeepUnobserved(held, value) == IF changed THEN held ELSE value

\* watch::Sender::send: the value replaces the one held, observed or not.
WatchSend(held, value) == value

\* One key event of the loop: nothing happens when the key selects the
\* channel already selected, else the UI state and the watch channel are
\* both updated.  watch::Sender::send stores the value and marks every
\* receiver changed; it never blocks.
\* The receivers of the watch channel still alive: the one the stream task
\* owns, until the task has returned or been dropped, and the one the
\* audio thread owns, until the thread has returned.
receiver_count ==
    (IF pc \in {"returned", "aborted"} THEN 0 ELSE 1) + (IF a_pc = "exited" THEN 0 ELSE 1)

\* A key event of the channel keys.  let _ = channel_tx.send(new_channel):
\* with no receiver left send() fails and the value held stays.
KeyPress(k) ==
    /\ ui_pc = "loop"
    /\ LET new_channel == KeyTarget(k, ui_channel)
       IN  IF ui_channel # new_channel
           THEN /\ ui_channel' = new_channel
                /\ IF receiver_count = 0
                   THEN UNCHANGED <<signal, changed, changed_at, overwritten>>
                   ELSE /\ signal' = WatchSend(signal, new_channel)
                        /\ changed' = TRUE
                        /\ changed_at' = IF changed THEN changed_at ELSE LoopPhase
                        /\ overwritten' = (overwritten \/ changed)
           ELSE UNCHANGED <<ui_channel, signal, changed, changed_at, overwritten>>
    /\ UNCHANGED <<ui_pc, stream_vars, audio_q, audio_vars, coalesced, hist_vars>>
    /\ UNCHANGED fn_vars

\* 'q' or Esc: leave the loop, abort the stream task, drop the handles and
\* (on return) the watch sender.
Quit ==
    /\ ui_pc = "loop"
    /\ ui_pc' = "done"
    /\ UNCHANGED <<ui_channel, watch_vars, stream_vars, audio_q, audio_vars,
                   coalesced, hist_vars>>
    /\ UNCHANGED fn_vars

\* --------------------------------------------------------- run_stream_loop
\* The task is polled for the first time (an aborted task is never polled):
\* let mut current_channel = *channel_rx.borrow_and_update();
Start ==
    /\ pc = "start"
    /\ ~abort_requested
    /\ current_channel' = signal
    /\ changed' = FALSE
    /\ changed_at' = "none"
    /\ overwritten' = FALSE
    /\ pc' = "check"
    /\ UNCHANGED <<ui_vars, signal, seen_segments, resolved_urls, segments, key, audio_q,
                   audio_vars, coalesced, hist_vars>>
    /\ UNCHANGED fn_vars

\* if new_channel != current_channel
\* A loop that treats every observed change as a switch.
Adopts_AnyChange(new_channel, cur) == TRUE

Adopts(new_channel, cur) == new_channel # cur

\* A loop that carries the seen set over to the new channel.
ClearSeen_Keep(seen) == seen

\* seen_segments.clear();
ClearSeen(seen) == {}

\* A loop that adopts a channel without telling the audio thread.
SendFlush_Silent(q) == q

\* let _ = audio_tx.send(vec![]);
SendFlush(q) == Append(q, EmptyBuffer)

\* A loop that resolves the configured URL in every iteration.
NeedsResolve_Always(urls, c) == TRUE

\* if let Some(url) = resolved_urls.get(&current_channel) { .. } else { .. }
NeedsResolve(urls, c) == ~IsSome(urls[c])

\* Top of the loop: adopt a changed channel, then start the resolve or the
\* playlist fetch of the current channel.
CheckChannel ==
    /\ pc = "check"
    /\ \E hc \in has_changed :
       LET adopt == hc /\ Adopts(signal, current_channel)
           cc == IF adopt THEN signal ELSE current_channel
       IN  /\ adopt => Len(audio_q) < MaxQueue
           /\ changed' = IF hc THEN FALSE ELSE changed
           /\ changed_at' = IF hc THEN "none" ELSE changed_at
           /\ overwritten' = IF hc THEN FALSE ELSE overwritten
           /\ coalesced' = (adopt /\ overwritten)
           /\ current_channel' = cc
           /\ seen_segments' = IF adopt THEN ClearSeen(seen_segments) ELSE seen_segments
           /\ audio_q' = IF adopt THEN SendFlush(audio_q) ELSE audio_q
           /\ fetches' = IF adopt THEN [u \in SegUrls |-> 0] ELSE fetches
           /\ session_sent' = IF adopt THEN <<>> ELSE session_sent
           /\ pc' = IF NeedsResolve(resolved_urls, cc) THEN "resolve" ELSE "fetch_m3u8"
    /\ UNCHANGED <<ui_vars, signal, resolved_urls, segments, key, audio_vars, done>>
    /\ UNCHANGED fn_vars

\* A loop that gives up on the first playlist failure.
AfterPlaylistError_Return == "returned"

\* Where the loop goes after resolve_master_playlist, fetch_m3u8 or
\* parse_m3u8 failed: eprintln, sleep 2 s, continue.
AfterPlaylistError == "sleep2"

\* resolve_master_playlist(&client, &m3u8_url).await returned.
ResolveReturn ==
    /\ pc = "resolve"
    /\ ~abort_requested
    /\ \E resp \in M3u8Responses(get_url(current_channel)) :
         LET url == resolve_master_playlist(resp, get_url(current_channel))
         IN  IF IsSome(url)
             THEN /\ resolved_urls' = [resolved_urls EXCEPT ![current_channel] = url]
                  /\ pc' = "fetch_m3u8"
             ELSE /\ pc' = AfterPlaylistError
                  /\ UNCHANGED resolved_urls
    /\ coalesced' = FALSE
    /\ UNCHANGED <<ui_vars, watch_vars, current_channel, seen_segments, segments, key,
                   audio_q, audio_vars, hist_vars>>
    /\ UNCHANGED fn_vars

\* The key URL the cycle fetches a key from: the first segment's, if any.
SelectKeyUrl(segs) == IF Len(segs) > 0 THEN segs[1].key_url ELSE None

\* client.fetch_m3u8(&actual_url).await returned; parse; start the key
\* fetch when the first segment declares a key URL.
FetchM3u8Return ==
    /\ pc = "fetch_m3u8"
    /\ ~abort_requested
    /\ \E resp \in M3u8Responses(Unwrap(resolved_urls[current_channel])) :
         LET actual_url == Unwrap(resolved_urls[current_channel])
             parsed == parse_m3u8(resp, actual_url)
         IN  IF ~fetch_m3u8_ok(resp) \/ parsed.err # ""
             THEN /\ pc' = AfterPlaylistError
                  /\ UNCHANGED segments
             ELSE /\ segments' = parsed.segs
                  /\ pc' = IF IsSome(SelectKeyUrl(parsed.segs)) THEN "fetch_key" ELSE "seg"
    /\ key' = None
    /\ coalesced' = FALSE
    /\ UNCHANGED <<ui_vars, watch_vars, current_channel, seen_segments, resolved_urls,
                   audio_q, audio_vars, hist_vars>>
    /\ UNCHANGED fn_vars

\* Where the loop goes when fetch_key failed: the `?` returns the error from
\* run_stream_loop.
AfterKeyError == "returned"

\* Some(client.fetch_key(key_url).await?)
FetchKeyReturn ==
    /\ pc = "fetch_key"
    /\ ~abort_requested
    /\ \E resp \in KeyResponses :
         LET k == fetch_key(resp)
         IN  IF IsSome(k)
             THEN /\ key' = k
                  /\ pc' = "seg"
                  /\ UNCHANGED segments
             ELSE /\ key' = None
                  /\ pc' = AfterKeyError
                  /\ segments' = <<>>
    /\ UNCHANGED <<ui_vars, watch_vars, current_channel, seen_segments, resolved_urls,
                   audio_q, audio_vars, coalesced, hist_vars>>
    /\ UNCHANGED fn_vars

\* if seen_segments.contains(&segment.url)
IsSeen(seen, url) == url \in seen

\* A loop that never records what it fetched.
MarkSeen_Forget(seen, url) == seen

\* seen_segments.insert(segment.url.clone());
MarkSeen(seen, url) == seen \cup {url}

\* A loop that sleeps at the end of every cycle.
EndOfCycle_AlwaysSleep(channel_changed) == "sleep5"

\* if channel_changed { continue; } sleep(5 s)
EndOfCycle(channel_changed) == IF channel_changed THEN "check" ELSE "sleep5"

\* Head of one iteration of `for segment in segments`, up to the segment
\* fetch; past the last segment, the end of the cycle.
ForSegment ==
    /\ pc = "seg"
    /\ \E hc \in has_changed :
       IF segments = <<>>
       THEN /\ pc' = EndOfCycle(FALSE)
            /\ key' = None
            /\ done' = <<>>
            /\ UNCHANGED <<segments, seen_segments, fetches>>
       ELSE IF hc
       THEN /\ pc' = EndOfCycle(TRUE)
            /\ segments' = <<>>
            /\ key' = None
            /\ done' = <<>>
            /\ UNCHANGED <<seen_segments, fetches>>
       ELSE IF IsSeen(seen_segments, Head(segments).url)
       THEN /\ segments' = Tail(segments)
            /\ done' = Append(done, [url |-> Head(segments).url,
                                  key_url |-> Head(segments).key_url,
                                  outcome |-> "seen"])
            /\ UNCHANGED <<pc, key, seen_segments, fetches>>
       ELSE /\ seen_segments' = MarkSeen(seen_segments, Head(segments).url)
            /\ fetches' = [fetches EXCEPT ![Head(segments).url] = @ + 1]
            /\ pc' = "fetch_segment"
            /\ UNCHANGED <<segments, key, done>>
    /\ UNCHANGED <<ui_vars, watch_vars, current_channel, resolved_urls, audio_q,
                   audio_vars, coalesced, session_sent>>
    /\ UNCHANGED fn_vars

\* What fetch_segment, decrypt_segment and decode_aac_to_pcm can make of one
\* segment: decrypt runs only with a key; "no_pcm" is a decode that fails or
\* yields no samples.
SegmentOutcomes(k) ==
    {"fetch_err", "no_pcm", "pcm"} \cup (IF IsSome(k) THEN {"decrypt_err"} ELSE {})

\* A loop that decrypts only the segments that declare a key themselves.
DecryptKey_PerSegment(k, segment) == IF IsSome(segment.key_url) THEN k ELSE None

\* The key a segment is decrypted with, if any: if let Some(ref k) = key,
\* whatever the segment's own key_url.
DecryptKey(k, segment) == k

\* if !pcm_samples.is_empty() { let _ = audio_tx.send(pcm_samples); }
SendPcm_Unguarded(q, pcm_samples) == Append(q, pcm_samples)

SendPcm(q, pcm_samples) == IF ~is_empty(pcm_samples) THEN Append(q, pcm_samples) ELSE q

\* A loop that leaves the cycle at the first segment it cannot play.
RestAfter_BreakOnFailure(outcome, segs) == IF outcome = "pcm" THEN Tail(segs) ELSE <<>>

\* What is left of the playlist once a segment has been dealt with: every
\* arm of the loop body (fetch, decrypt or decode failure, decoded) moves on
\* to the next segment.
RestAfter(outcome, segs) == Tail(segs)

\* client.fetch_segment(&segment.url).await returned; decrypt, decode, send.
FetchSegmentReturn ==
    /\ pc = "fetch_segment"
    /\ ~abort_requested
    /\ \E outcome \in SegmentOutcomes(DecryptKey(key, Head(segments))) :
         LET segment == Head(segments)
             decoded == outcome \in {"pcm", "no_pcm"}
             pcm_samples == IF outcome = "pcm" THEN Pcm(segment.url) ELSE EmptyBuffer
         IN  /\ outcome = "pcm" => Len(audio_q) < MaxQueue
             /\ audio_q' = IF decoded THEN SendPcm(audio_q, pcm_samples) ELSE audio_q
             /\ session_sent' = IF decoded THEN SendPcm(session_sent, pcm_samples)
                                ELSE session_sent
             /\ done' = Append(done, [url |-> segment.url, key_url |-> segment.key_url,
                                      outcome |-> outcome])
             /\ segments' = RestAfter(outcome, segments)
    /\ pc' = "seg"
    /\ UNCHANGED <<ui_vars, watch_vars, current_channel, seen_segments, resolved_urls,
                   key, audio_vars, coalesced, fetches>>
    /\ UNCHANGED fn_vars

\* tokio::time::sleep(2 s) after a resolve, fetch or parse failure.
Sleep2Return ==
    /\ pc = "sleep2"
    /\ ~abort_requested
    /\ pc' = "check"
    /\ UNCHANGED <<ui_vars, watch_vars, current_channel, seen_segments, resolved_urls,
                   segments, key, audio_q, audio_vars, coalesced, hist_vars>>
    /\ UNCHANGED fn_vars

\* tokio::time::sleep(5 s) at the end of a cycle that was not cut short.
Sleep5Return ==
    /\ pc = "sleep5"
    /\ ~abort_requested
    /\ pc' = "check"
    /\ UNCHANGED <<ui_vars, watch_vars, current_channel, seen_segments, resolved_urls,
                   segments, key, audio_q, audio_vars, coalesced, hist_vars>>
    /\ UNCHANGED fn_vars

\* player_handle.abort(): the task is dropped at the await it is parked on
\* (or before it ever ran).
Cancel ==
    /\ abort_requested
    /\ pc \in AwaitPoints \cup {"start"}
    /\ pc' = "aborted"
    /\ segments' = <<>>
    /\ key' = None
    /\ done' = <<>>
    /\ coalesced' = FALSE
    /\ UNCHANGED <<ui_vars, watch_vars, current_channel, seen_segments, resolved_urls,
                   audio_q, audio_vars, fetches, session_sent>>
    /\ UNCHANGED fn_vars

\* Every clone of audio_tx is gone once the stream task has ended.
audio_tx_dropped == pc \in {"returned", "aborted"}

\* -------------------------------------------------------- run_audio_thread
\* A thread that gives up when the device cannot be opened.
AfterAcquireError_GiveUp == "exited"

\* Where the thread goes when OutputStream::try_default or Sink::try_new
\* fails: log, sleep 1 s, go round the acquisition loop again.
AfterAcquireError == "retry"

\* OutputStream::try_default / Sink::try_new failed: sleep 1 s and retry.
AcquireFail ==
    /\ a_pc = "acquire"
    /\ a_pc' = AfterAcquireError
    /\ UNCHANGED <<ui_vars, watch_vars, stream_vars, audio_q, sink, playing, heard,
                   coalesced, hist_vars>>
    /\ UNCHANGED fn_vars

AcquireRetry ==
    /\ a_pc = "retry"
    /\ a_pc' = "acquire"
    /\ UNCHANGED <<ui_vars, watch_vars, stream_vars, audio_q, sink, playing, heard,
                   coalesced, hist_vars>>
    /\ UNCHANGED fn_vars

AcquireOk ==
    /\ a_pc = "acquire"
    /\ a_pc' = "recv"
    /\ UNCHANGED <<ui_vars, watch_vars, stream_vars, audio_q, sink, playing, heard,
                   coalesced, hist_vars>>
    /\ UNCHANGED fn_vars

\* A sink that plays the newest buffer first.
SinkAfter_Prepend(s, samples) == IF is_empty(samples) THEN <<>> ELSE <<samples>> \o s

\* The sink after one received buffer: sink.clear() on an empty one,
\* sink.append(source) otherwise.
SinkAfter(s, samples) == IF is_empty(samples) THEN <<>> ELSE Append(s, samples)

\* A thread that clears the sink and leaves it as clear() left it.
PlayingAfter_NoPlay(p, samples) == IF is_empty(samples) THEN FALSE ELSE p

\* Whether the sink plays after one received buffer: Sink::clear() pauses
\* the sink and sink.play() resumes it; append leaves it as it is.
PlayingAfter(p, samples) == IF is_empty(samples) THEN TRUE ELSE p

\* rx.recv_timeout returned Ok(samples).
AudioRecv ==
    /\ a_pc = "recv"
    /\ audio_q # <<>>
    /\ sink' = SinkAfter(sink, Head(audio_q))
    /\ playing' = PlayingAfter(playing, Head(audio_q))
    /\ heard' = IF is_empty(Head(audio_q)) THEN <<>> ELSE Append(heard, Head(audio_q))
    /\ audio_q' = Tail(audio_q)
    /\ UNCHANGED <<ui_vars, watch_vars, stream_vars, a_pc, coalesced, hist_vars>>
    /\ UNCHANGED fn_vars

\* rx.recv_timeout returned Err(Disconnected): queue drained, no sender left.
AudioDisconnected ==
    /\ a_pc = "recv"
    /\ audio_q = <<>>
    /\ audio_tx_dropped
    /\ a_pc' = "exited"
    /\ UNCHANGED <<ui_vars, watch_vars, stream_vars, audio_q, sink, playing, heard,
                   coalesced, hist_vars>>
    /\ UNCHANGED fn_vars

\* The output device finished playing the buffer at the front of the sink.
SinkPlay ==
    /\ sink # <<>>
    /\ playing
    /\ sink' = Tail(sink)
    /\ UNCHANGED <<ui_vars, watch_vars, stream_vars, audio_q, a_pc, playing, heard,
                   coalesced, hist_vars>>
    /\ UNCHANGED fn_vars

Ui == Quit \/ \E k \in ChannelKeys : KeyPress(k)

StreamLoop ==
    \/ Start \/ CheckChannel \/ ResolveReturn \/ FetchM3u8Return \/ FetchKeyReturn
    \/ ForSegment \/ FetchSegmentReturn \/ Sleep2Return \/ Sleep5Return \/ Cancel

AudioThread ==
    AcquireFail \/ AcquireRetry \/ AcquireOk \/ AudioRecv \/ AudioDisconnected \/ SinkPlay

Next == Ui \/ StreamLoop \/ AudioThread

\* The whole session: the key-event loop, the stream task, the audio thread.
Spec == Init /\ [][Next]_vars

\* The receiving half of the audio channel seen from run_stream_loop: some
\* receiver takes the buffer at the front, whatever it does with it.
Drain ==
    /\ audio_q # <<>>
    /\ audio_q' = Tail(audio_q)
    /\ UNCHANGED <<ui_vars, watch_vars, stream_vars, audio_vars, coalesced, hist_vars>>
    /\ UNCHANGED fn_vars

StreamNext == Ui \/ StreamLoop \/ Drain

\* run_stream_loop with its two neighbours: the key-event loop writing the
\* watch channel and aborting the task, and a receiver draining the audio
\* channel.
StreamSpec == Init /\ [][StreamNext]_vars

\* StreamSpec where the runtime keeps polling the task (every network call
\* and sleep returns, synchronous code runs on) and the receiver keeps
\* taking what is on the audio channel.
FairStreamSpec == StreamSpec /\ WF_vars(StreamLoop) /\ WF_vars(Drain)

\* Spec where the runtime keeps polling the stream task and the OS keeps
\* running the audio thread: every call, sleep and receive returns.  Whether
\* an attempt to open the audio device succeeds is up to the machine.
FairSpec == Spec /\ WF_vars(StreamLoop) /\ WF_vars(AudioThread)

\* ------------------------------------------------------ decode_aac_to_pcm
MaxPackets == 3

\* Result<T>
Ok(v) == [ok |-> TRUE, value |-> v]
Err(e) == [ok |-> FALSE, error |-> e]

\* What format.next_packet() and decoder.decode() make of one packet of the
\* input: a frame of the AAC track that decodes, one that does not, or a
\* packet of another track.
PacketKinds == {"frame", "bad_frame", "other_track"}

\* aac_data, by what Symphonia makes of it: whether the probe recognises a
\* format, whether the format has an AAC track, whether a decoder can be
\* made for it, the packets next_packet() returns, and the error that
\* follows the last of them (the end of the data or any other read error).
DecoderInputs ==
    [probe : {"ok", "err"},
     aac_track : BOOLEAN,
     make : {"ok", "err"},
     packets : UNION {[1..n -> PacketKinds] : n \in 0..MaxPackets},
     end : {"eof", "io_err"}]

\* The samples convert_audio_buffer_to_pcm pushes for the i-th packet.
Frame(i) == <<i>>

\* A decoder that gives up at the first frame it cannot decode.
AfterFrameError_Break == "break"

\* Err(e) => { log::debug!("Decode error: {}", e); continue; }
AfterFrameError == "continue"

\* decode_aac_to_pcm(aac_data) is called.
DecodeCall ==
    /\ d_pc \in {"idle", "returned"}
    /\ \E input \in DecoderInputs : d_input' = input
    /\ d_pc' = "probe"
    /\ d_rest' = <<>>
    /\ d_pcm_samples' = <<>>
    /\ d_result' = None
    /\ UNCHANGED <<session_vars, crypto_vars, url_vars, cli_vars, info_vars, parse_vars, thread_vars, app_vars>>

\* get_probe().format(..): Err => return Ok(Vec::new())
Probe ==
    /\ d_pc = "probe"
    /\ IF d_input.probe = "err"
       THEN d_pc' = "returned" /\ d_result' = Some(Ok(<<>>))
       ELSE d_pc' = "find_track" /\ d_result' = d_result
    /\ UNCHANGED <<d_input, d_rest, d_pcm_samples, session_vars, crypto_vars, url_vars, cli_vars, info_vars, parse_vars, thread_vars, app_vars>>

\* format.tracks().iter().find(codec == CODEC_TYPE_AAC): None => return Ok(Vec::new())
FindTrack ==
    /\ d_pc = "find_track"
    /\ IF ~d_input.aac_track
       THEN d_pc' = "returned" /\ d_result' = Some(Ok(<<>>))
       ELSE d_pc' = "make" /\ d_result' = d_result
    /\ UNCHANGED <<d_input, d_rest, d_pcm_samples, session_vars, crypto_vars, url_vars, cli_vars, info_vars, parse_vars, thread_vars, app_vars>>

\* get_codecs().make(..): Err => return Ok(Vec::new()); then
\* let mut pcm_samples = Vec::new();
MakeDecoder ==
    /\ d_pc = "make"
    /\ IF d_input.make = "err"
       THEN d_pc' = "returned" /\ d_result' = Some(Ok(<<>>)) /\ d_rest' = d_rest
       ELSE d_pc' = "loop" /\ d_result' = d_result /\ d_rest' = d_input.packets
    /\ d_pcm_samples' = <<>>
    /\ UNCHANGED <<d_input, session_vars, crypto_vars, url_vars, cli_vars, info_vars, parse_vars, thread_vars, app_vars>>

\* One turn of the loop: next_packet(), the track check, decode(), convert.
\* Any Err of next_packet() breaks, and Ok(pcm_samples) is returned.
NextPacket ==
    /\ d_pc = "loop"
    /\ IF d_rest = <<>>
       THEN /\ d_pc' = "returned"
            /\ d_result' = Some(Ok(d_pcm_samples))
            /\ UNCHANGED <<d_rest, d_pcm_samples>>
       ELSE LET i == Len(d_input.packets) - Len(d_rest) + 1
                packet == Head(d_rest)
            IN  IF packet = "bad_frame" /\ AfterFrameError = "break"
                THEN /\ d_pc' = "returned"
                     /\ d_result' = Some(Ok(d_pcm_samples))
                     /\ UNCHANGED <<d_rest, d_pcm_samples>>
                ELSE /\ d_pc' = "loop"
                     /\ d_result' = d_result
                     /\ d_rest' = Tail(d_rest)
                     /\ d_pcm_samples' = IF packet = "frame"
                                         THEN d_pcm_samples \o Frame(i)
                                         ELSE d_pcm_samples
    /\ UNCHANGED <<d_input, session_vars, crypto_vars, url_vars, cli_vars, info_vars, parse_vars, thread_vars, app_vars>>

DecodeNext == DecodeCall \/ Probe \/ FindTrack \/ MakeDecoder \/ NextPacket

\* decode_aac_to_pcm called over and over, on any input.
DecodeSpec == Init /\ [][DecodeNext]_vars

\* -------------------------------------------------------- decrypt_segment
\* A u64 is held as four 16-bit limbs, the most significant first.
LimbValues == {0, 1, 255, 256, 65535}
U64 == [1..4 -> LimbValues]

\* A string is held as the sequence of its characters.
Rep(c, n) == [i \in 1..n |-> c]
HexChars == <<"0", "1", "2", "3", "4", "5", "6", "7", "8", "9",
              "a", "b", "c", "d", "e", "f", "A", "B", "C", "D", "E", "F">>
IsHexChar(c) == \E i \in 1..Len(HexChars) : HexChars[i] = c
HexVal(c) == LET i == CHOOSE j \in 1..Len(HexChars) : HexChars[j] = c
             IN  IF i <= 16 THEN i - 1 ELSE i - 7

\* str::trim_start_matches: every leading repetition of the pattern goes.
RECURSIVE trim_start_matches(_, _)
trim_start_matches(str, pat) ==
    IF Len(str) >= Len(pat) /\ SubSeq(str, 1, Len(pat)) = pat
    THEN trim_start_matches(SubSeq(str, Len(pat) + 1, Len(str)), pat)
    ELSE str

\* hex::decode
hex_decode(str) ==
    IF Len(str) % 2 = 1 THEN Err("OddLength")
    ELSE IF \E i \in 1..Len(str) : ~IsHexChar(str[i]) THEN Err("InvalidHexCharacter")
    ELSE Ok([i \in 1..(Len(str) \div 2) |->
                HexVal(str[2 * i - 1]) * 16 + HexVal(str[2 * i])])

\* A derivation that writes the sequence number the other way round.
to_le_bytes(n) ==
    [i \in 1..8 |-> IF i % 2 = 1 THEN n[4 - (i \div 2)] % 256
                    ELSE n[5 - (i \div 2)] \div 256]

\* u64::to_be_bytes
to_be_bytes(n) ==
    [i \in 1..8 |-> IF i % 2 = 1 THEN n[(i + 1) \div 2] \div 256
                    ELSE n[i \div 2] % 256]

\* let mut iv_bytes = vec![0u8; 16]; iv_bytes[8..16].copy_from_slice(&seq_bytes);
DerivedIv(seq_no) ==
    LET seq_bytes == to_be_bytes(seq_no)
    IN  [i \in 1..16 |-> IF i <= 8 THEN 0 ELSE seq_bytes[i - 8]]

\* let iv = if let Some(iv_str) = iv_hex { .. hex::decode(iv_str)? } else { .. };
SelectIv(iv_hex, seq_no) ==
    IF IsSome(iv_hex)
    THEN hex_decode(trim_start_matches(
             trim_start_matches(Unwrap(iv_hex), <<"0", "x">>), <<"0", "X">>))
    ELSE Ok(DerivedIv(seq_no))

\* decrypt_segment(data, key, iv_hex, seq_no): what it returns, and the IV
\* it hands to the cipher, if it gets that far.  The key is held by its
\* length and the data by whether its padding checks out under the key and
\* IV; the plaintext by the IV it was decrypted with.
decrypt_segment(data_ok, key_len, iv_hex, seq_no) ==
    IF key_len # KEY_LEN THEN [ret |-> Err("Invalid key length"), iv |-> None]
    ELSE LET iv == SelectIv(iv_hex, seq_no)
         IN  IF ~iv.ok THEN [ret |-> Err(iv.error), iv |-> None]
             ELSE IF Len(iv.value) # 16
             THEN [ret |-> Err("Invalid IV length"), iv |-> None]
             ELSE IF ~data_ok
             THEN [ret |-> Err("Decryption failed"), iv |-> Some(iv.value)]
             ELSE [ret |-> Ok([decrypted_with |-> iv.value]), iv |-> Some(iv.value)]

\* The explicit IVs tried: 32 hex digits bare and behind the prefixes, the
\* hex of 0, 8, 15, 17 and 32 bytes, of odd length, not hex.
IvHexInputs ==
    {Rep("0", 32),
     Rep("0", 16),
     Rep("0", 34),
     Rep("0", 64),
     <<"0", "x">> \o Rep("0", 16),
     <<"0", "x">> \o Rep("a", 32),
     <<"0", "X">> \o Rep("F", 32),
     <<"0", "x", "0", "x">> \o Rep("1", 32),
     <<"0", "X", "0", "x">> \o Rep("1", 32),
     Rep("0", 30),
     Rep("0", 31),
     <<"g">> \o Rep("0", 31),
     <<>>}

DecryptArgs ==
    [data_ok : BOOLEAN,
     key_len : {0, 8, KEY_LEN - 1, KEY_LEN, KEY_LEN + 1, 32},
     iv_hex : {None} \cup {Some(h) : h \in IvHexInputs},
     seq_no : U64]

\* decrypt_segment is called and returns.
DecryptSegment ==
    /\ c_args = None
    /\ \E args \in DecryptArgs :
         LET r == decrypt_segment(args.data_ok, args.key_len, args.iv_hex, args.seq_no)
         IN  /\ c_args' = Some(args)
             /\ c_result' = Some(r.ret)
             /\ c_iv' = r.iv
    /\ UNCHANGED <<session_vars, decoder_vars, url_vars, cli_vars, info_vars, parse_vars, thread_vars, app_vars>>

DecryptNext == DecryptSegment

\* One call of decrypt_segment, on any arguments.
DecryptSpec == Init /\ [][DecryptNext]_vars

\* ---------------------------------------------------------- normalize_url
\* The text of a URL is held as the sequence of its pieces: the scheme with
\* its colon, each slash, the host, the colon and the port, each name of
\* the path.
starts_with(str, pat) == Len(str) >= Len(pat) /\ SubSeq(str, 1, Len(pat)) = pat

Schemes == {"http:", "https:"}
Domains == {"example.com"}
IpHosts == {"192.0.2.1"}
Ports == {"8443"}

\* Url::parse on a base URL: None is Err.  A URL with no path has path "/".
UrlParse(str) ==
    IF Len(str) >= 4 /\ str[1] \in Schemes /\ str[2] = "/" /\ str[3] = "/"
         /\ str[4] \in Domains \cup IpHosts
    THEN LET hasport == Len(str) >= 6 /\ str[5] = ":" /\ str[6] \in Ports
             rest == SubSeq(str, IF hasport THEN 7 ELSE 5, Len(str))
         IN  IF rest = <<>> \/ rest[1] = "/"
             THEN Some([scheme |-> str[1], host |-> str[4],
                        port |-> IF hasport THEN Some(str[6]) ELSE None,
                        path |-> IF rest = <<>> THEN <<"/">> ELSE rest])
             ELSE None
    ELSE None

\* Url::to_string
UrlString(u) ==
    <<u.scheme, "/", "/", u.host>>
      \o (IF IsSome(u.port) THEN <<":", Unwrap(u.port)>> ELSE <<>>) \o u.path

\* Url::domain: none when the host is an IP address.
domain(u) == IF u.host \in Domains THEN Some(u.host) ELSE None

\* The names between the slashes of a path, "" standing for the empty name
\* after a trailing slash.
RECURSIVE PathNames(_)
PathNames(path) ==
    IF path = <<>> THEN <<>>
    ELSE IF Len(path) = 1 THEN <<"">>
    ELSE IF path[2] = "/" THEN <<"">> \o PathNames(Tail(path))
    ELSE <<path[2]>> \o PathNames(SubSeq(path, 3, Len(path)))

RECURSIVE PathOfNames(_)
PathOfNames(names) ==
    IF names = <<>> THEN <<>>
    ELSE (IF Head(names) = "" THEN <<"/">> ELSE <<"/", Head(names)>>)
           \o PathOfNames(Tail(names))

\* RFC 3986 5.2.4 on the names: "." goes, ".." goes with the name before it.
RECURSIVE RemoveDotNames(_, _)
RemoveDotNames(names, out) ==
    IF names = <<>> THEN out
    ELSE LET name == Head(names)
             last == Len(names) = 1
             popped == IF out = <<>> THEN out ELSE SubSeq(out, 1, Len(out) - 1)
         IN  IF name = ".."
             THEN RemoveDotNames(Tail(names), IF last THEN Append(popped, "") ELSE popped)
             ELSE IF name = "."
             THEN RemoveDotNames(Tail(names), IF last THEN Append(out, "") ELSE out)
             ELSE RemoveDotNames(Tail(names), Append(out, name))

remove_dot_segments(path) == PathOfNames(RemoveDotNames(PathNames(path), <<>>))

\* A join against the base path itself, as if it were a directory.
MergeDir_WholePath(path) == path \o <<"/">>

\* RFC 3986 5.2.3: the base path up to and including its last slash.
MergeDir(path) ==
    SubSeq(path, 1, CHOOSE i \in 1..Len(path) :
                      path[i] = "/" /\ \A j \in (i + 1)..Len(path) : path[j] # "/")

\* Url::join on a reference with no scheme: Ok on every such reference.
UrlJoin(base, reference) ==
    IF reference = <<>> THEN base
    ELSE IF starts_with(reference, <<"/">>)
    THEN [base EXCEPT !.path = remove_dot_segments(reference)]
    ELSE [base EXCEPT !.path = remove_dot_segments(MergeDir(base.path) \o reference)]

normalize_url(base_url, relative_url) ==
    IF starts_with(relative_url, <<"http:", "/", "/">>)
         \/ starts_with(relative_url, <<"https:", "/", "/">>)
    THEN relative_url
    ELSE IF starts_with(relative_url, <<"/", "/">>)
    THEN <<"https:">> \o relative_url
    ELSE LET base == UrlParse(base_url)
         IN  IF ~IsSome(base) THEN relative_url
             ELSE IF starts_with(relative_url, <<"/">>) /\ IsSome(domain(Unwrap(base)))
             THEN <<Unwrap(base).scheme, "/", "/", Unwrap(domain(Unwrap(base)))>>
                    \o relative_url
             ELSE UrlString(UrlJoin(Unwrap(base), relative_url))

\* The base URLs tried: both schemes, a domain and an IP address as host,
\* with and without a port, a playlist at the root and two directories
\* down; and a string that is no URL.
BasePaths == {<<"/", "playlist.m3u8">>, <<"/", "path", "/", "to", "/", "playlist.m3u8">>}

BaseUrls ==
    {UrlString([scheme |-> sc, host |-> h, port |-> p, path |-> path]) :
        sc \in Schemes, h \in Domains \cup IpHosts,
        p \in {None, Some("8443")}, path \in BasePaths}
    \cup {<<"playlist.m3u8">>}

\* The references tried: absolute, scheme-relative, root-relative, relative
\* (plain, into a subdirectory, up one directory), empty.
AbsoluteRefs ==
    {<<"https:", "/", "/", "other.com", "/", "segment.ts">>,
     <<"http:", "/", "/", "other.com", "/", "segment.ts">>}
SchemeRelativeRefs == {<<"/", "/", "cdn.example.com", "/", "segment.ts">>}
RootRelativeRefs == {<<"/", "absolute", "/", "segment.ts">>, <<"/", "segment.ts">>}
PlainRelativeRefs == {<<"segment.ts">>, <<"sub", "/", "segment.ts">>}
UpRelativeRefs == {<<"..", "/", "segment.ts">>}
RelativeUrls ==
    AbsoluteRefs \cup SchemeRelativeRefs \cup RootRelativeRefs \cup PlainRelativeRefs
      \cup UpRelativeRefs \cup {<<>>}

\* normalize_url is called and returns.
NormalizeUrl ==
    /\ n_args = None
    /\ \E base_url \in BaseUrls, relative_url \in RelativeUrls :
         /\ n_args' = Some([base_url |-> base_url, relative_url |-> relative_url])
         /\ n_result' = Some(normalize_url(base_url, relative_url))
    /\ UNCHANGED <<session_vars, decoder_vars, crypto_vars, r_args, r_result, cli_vars, info_vars, parse_vars, thread_vars, app_vars>>

\* One call of normalize_url, on any arguments.
NormalizeSpec == Init /\ [][NormalizeUrl]_vars

\* ------------------------------------- resolve_master_playlist, on text
\* An error message is held, like a URL, as the sequence of its pieces.
contains(str, piece) == \E i \in 1..Len(str) : str[i] = piece

\* str.split(sep).nth(1): what stands between the first occurrence of the
\* separator and the next one, or the end; None when there is no occurrence.
SplitNth1(str, sep) ==
    LET at == {i \in 1..Len(str) : str[i] = sep}
    IN  IF at = {} THEN None
        ELSE LET first == CHOOSE i \in at : \A j \in at : i <= j
                 later == {j \in at : j > first}
                 end == IF later = {} THEN Len(str)
                        ELSE (CHOOSE i \in later : \A j \in later : i <= j) - 1
             IN  Some(SubSeq(str, first + 1, end))

\* An option of a string that is empty counts as none.
NonEmpty_KeepEmpty(o) == o

\* if let Some(ref s) = o { if !s.is_empty() { Some(..) } else { None } } else { None }
NonEmpty(o) == IF IsSome(o) /\ Unwrap(o) # <<>> THEN o ELSE None

\* parse_media_playlist on the segments m3u8_rs hands over, each with its
\* URI and its Option<Key> of an optional URI and an optional IV.
ParseMediaPlaylistText(segments_in, base_url) ==
    [idx \in 1..Len(segments_in) |->
        LET segment == segments_in[idx]
            uri == IF IsSome(segment.key) THEN NonEmpty(Unwrap(segment.key).uri) ELSE None
        IN  [url |-> normalize_url(base_url, segment.uri),
             key_url |-> IF IsSome(uri) THEN Some(normalize_url(base_url, Unwrap(uri)))
                         ELSE None,
             iv |-> IF IsSome(segment.key) THEN NonEmpty(Unwrap(segment.key).iv) ELSE None,
             seq_no |-> idx - 1]]

\* parse_m3u8 on the text of a playlist, by what m3u8_rs makes of it: not a
\* playlist, a media playlist with its segments, or a master playlist with
\* the URIs of its variants.
ParseM3u8Text(content, base_url) ==
    CASE content.kind = "master" /\ content.variants = <<>> ->
            Err(<<"No variants found in master playlist">>)
      [] content.kind = "master" /\ content.variants # <<>> ->
            Err(<<"Master playlist detected", ". ", "Variant URL: ">>
                  \o normalize_url(base_url, content.variants[1]))
      [] content.kind = "media" -> Ok(ParseMediaPlaylistText(content.segments, base_url))
      [] OTHER -> Err(<<"Failed to parse M3U8 playlist: ", "Parsing Error">>)

\* resolve_master_playlist, given what the GET of m3u8_url produced.
ResolveMasterPlaylistText(resp, m3u8_url) ==
    IF resp.kind = "neterr" THEN Err(<<"Failed to fetch M3U8">>)
    ELSE LET parsed == ParseM3u8Text(resp, m3u8_url)
         IN  IF parsed.ok THEN Ok(m3u8_url)
             ELSE IF contains(parsed.error, "Master playlist detected")
                       /\ IsSome(SplitNth1(parsed.error, "Variant URL: "))
                  THEN Ok(Unwrap(SplitNth1(parsed.error, "Variant URL: ")))
                  ELSE parsed

\* The variant URIs tried: relative, root-relative, absolute, and an
\* absolute one with the words "Variant URL: " in its path.
VariantUris ==
    {<<"variant.m3u8">>,
     <<"/", "hls", "/", "variant.m3u8">>,
     <<"https:", "/", "/", "other.com", "/", "variant.m3u8">>,
     <<"https:", "/", "/", "other.com", "/", "a ", "Variant URL: ", "b.m3u8">>}

\* What the GET can produce: a network error, text that is no playlist, a
\* media playlist, a master playlist with no, one or two variants.
ResolveResponses ==
    {[kind |-> k, variants |-> <<>>, segments |-> <<>>] :
        k \in {"neterr", "garbage", "media", "master"}}
    \cup {[kind |-> "master", variants |-> <<v>>, segments |-> <<>>] : v \in VariantUris}
    \cup {[kind |-> "master", variants |-> <<v, <<"second.m3u8">> >>, segments |-> <<>>] :
             v \in VariantUris}

\* resolve_master_playlist is called and returns.
ResolveMasterPlaylist ==
    /\ r_args = None
    /\ \E m3u8_url \in BaseUrls, resp \in ResolveResponses :
         /\ r_args' = Some([m3u8_url |-> m3u8_url, resp |-> resp])
         /\ r_result' = Some(ResolveMasterPlaylistText(resp, m3u8_url))
    /\ UNCHANGED <<session_vars, decoder_vars, crypto_vars, n_args, n_result, cli_vars, info_vars, parse_vars, thread_vars, app_vars>>

\* One call of resolve_master_playlist, on any URL and any answer.
ResolveSpec == Init /\ [][ResolveMasterPlaylist]_vars

\* ----------------------------------------------- run_cli: the play command
MaxAreas == 2

Areas == {"130", "400"}
Kinds == {"r1", "r2", "fm", "am"}

\* The command lines tried: an area the server may list or one it never
\* lists, a kind that exists or one that does not.
PlayArgs == [area : Areas \cup {"999"}, kind : Kinds]

\* What fetch_config can produce: an error, or the areas of the data
\* entries in the order of the document.
ConfigResponses ==
    {Err("Failed to fetch config")}
    \cup {Ok(data) : data \in UNION {[1..n -> Areas] : n \in 0..MaxAreas}}

\* A play command that gives up when the programme cannot be fetched.
AfterProgramError_Bail == "bail"

\* let program = client.fetch_program(&program_url).await.ok();
AfterProgramError == "go_on"

\* Cli::parse() gives Commands::Play { area, kind }; fetch_config is called.
CliParse ==
    /\ cli_pc = "start"
    /\ \E args \in PlayArgs : cli_args' = Some(args)
    /\ cli_pc' = "fetch_config"
    /\ UNCHANGED <<cli_config, cli_rest, cli_program, cli_playing, cli_result, cli_exit>>
    /\ UNCHANGED <<session_vars, decoder_vars, crypto_vars, url_vars, info_vars, parse_vars, thread_vars, app_vars>>

\* let config = client.fetch_config().await?;
FetchConfigReturn ==
    /\ cli_pc = "fetch_config"
    /\ \E resp \in ConfigResponses :
         /\ cli_config' = Some(resp)
         /\ IF resp.ok
            THEN cli_pc' = "for_data" /\ cli_rest' = resp.value /\ cli_result' = cli_result
            ELSE cli_pc' = "main" /\ cli_rest' = cli_rest /\ cli_result' = Some(resp)
    /\ UNCHANGED <<cli_args, cli_program, cli_playing, cli_exit>>
    /\ UNCHANGED <<session_vars, decoder_vars, crypto_vars, url_vars, info_vars, parse_vars, thread_vars, app_vars>>

\* One turn of for data in &config.stream_url.data, up to the call of
\* fetch_program; after the last entry, bail!("Area not found").
ForData ==
    /\ cli_pc = "for_data"
    /\ IF cli_rest = <<>>
       THEN /\ cli_pc' = "main"
            /\ cli_result' = Some(Err("Area not found"))
            /\ UNCHANGED cli_rest
       ELSE IF Head(cli_rest) # Unwrap(cli_args).area
       THEN /\ cli_pc' = "for_data"
            /\ cli_rest' = Tail(cli_rest)
            /\ UNCHANGED cli_result
       ELSE IF Unwrap(cli_args).kind \notin {"r1", "r2", "fm"}
       THEN /\ cli_pc' = "main"
            /\ cli_result' = Some(Err("Invalid kind"))
            /\ UNCHANGED cli_rest
       ELSE /\ cli_pc' = "fetch_program"
            /\ UNCHANGED <<cli_rest, cli_result>>
    /\ UNCHANGED <<cli_args, cli_config, cli_program, cli_playing, cli_exit>>
    /\ UNCHANGED <<session_vars, decoder_vars, crypto_vars, url_vars, info_vars, parse_vars, thread_vars, app_vars>>

\* fetch_program returns; get_program_info, print_now_playing, Player::new()
\* and the call of play_live follow.
FetchProgramReturn ==
    /\ cli_pc = "fetch_program"
    /\ \E resp \in {Ok("program"), Err("Failed to fetch program")} :
         /\ cli_program' = Some(resp)
         /\ IF ~resp.ok /\ AfterProgramError = "bail"
            THEN cli_pc' = "main" /\ cli_result' = Some(resp) /\ cli_playing' = cli_playing
            ELSE cli_pc' = "play_live" /\ cli_result' = cli_result /\ cli_playing' = TRUE
    /\ UNCHANGED <<cli_args, cli_config, cli_rest, cli_exit>>
    /\ UNCHANGED <<session_vars, decoder_vars, crypto_vars, url_vars, info_vars, parse_vars, thread_vars, app_vars>>

\* return player.play_live(m3u8_url).await;
PlayLiveReturn ==
    /\ cli_pc = "play_live"
    /\ \E result \in {Ok("unit"), Err("playback failed")} : cli_result' = Some(result)
    /\ cli_pc' = "main"
    /\ UNCHANGED <<cli_args, cli_config, cli_rest, cli_program, cli_playing, cli_exit>>
    /\ UNCHANGED <<session_vars, decoder_vars, crypto_vars, url_vars, info_vars, parse_vars, thread_vars, app_vars>>

\* if let Err(e) = cli::run_cli().await { eprintln!(..); std::process::exit(1); }
Main ==
    /\ cli_pc = "main"
    /\ cli_exit' = IF Unwrap(cli_result).ok
                   THEN Some([code |-> 0, stderr |-> None])
                   ELSE Some([code |-> 1, stderr |-> Some(Unwrap(cli_result).error)])
    /\ cli_pc' = "exited"
    /\ UNCHANGED <<cli_args, cli_config, cli_rest, cli_program, cli_playing, cli_result>>
    /\ UNCHANGED <<session_vars, decoder_vars, crypto_vars, url_vars, info_vars, parse_vars, thread_vars, app_vars>>

CliNext ==
    CliParse \/ FetchConfigReturn \/ ForData \/ FetchProgramReturn \/ PlayLiveReturn \/ Main

\* One run of the play command, on any arguments and any answers.
CliSpec == Init /\ [][CliNext]_vars

\* ------------------------------------------------ ProgramInfo::from_program
display_name(kind) ==
    CASE kind = "R1" -> "Radio 1" [] kind = "R2" -> "Radio 2" [] kind = "Fm" -> "FM"

\* format_time, kept as the date it was given.
format_time(start_date) == <<"formatted", start_date>>

\* Channel.present of channel ch: no event, an event with no about record,
\* an event with one.  A string is a sequence of pieces, String::new() the
\* empty one, and every name tells its channel.
PresentEvents(ch) ==
    {None,
     Some([name |-> <<ch, "event">>, start_date |-> <<ch, "date">>, about |-> None]),
     Some([name |-> <<ch, "event">>, start_date |-> <<ch, "date">>,
           about |-> Some([name |-> <<ch, "about">>, description |-> <<ch, "text">>])])}

\* Option<Root>
ProgramDocuments ==
    {None} \cup {Some(p) : p \in [r1 : [present : PresentEvents("r1")],
                                  r2 : [present : PresentEvents("r2")],
                                  r3 : [present : PresentEvents("r3")]]}

\* A title that is the event's name whether or not there is an about record.
EventTitle_NameOnly(present) == present.name

\* present.about.as_ref().map(|a| a.name.clone()).unwrap_or_else(|| present.name.clone())
EventTitle(present) ==
    IF IsSome(present.about) THEN Unwrap(present.about).name ELSE present.name

from_program(program, kind, area_name) ==
    LET channel == CASE kind = "R1" -> Unwrap(program).r1
                     [] kind = "R2" -> Unwrap(program).r2
                     [] kind = "Fm" -> Unwrap(program).r3
        found == IsSome(program) /\ IsSome(channel.present)
        present == Unwrap(channel.present)
    IN  [station_name |-> display_name(kind),
         area_name |-> area_name,
         program_title |-> IF found THEN EventTitle(present) ELSE <<"placeholder">>,
         start_time |-> IF found THEN format_time(present.start_date) ELSE <<>>,
         description |-> IF found /\ IsSome(present.about)
                         THEN Unwrap(present.about).description ELSE <<>>]

\* from_program is called and returns.
FromProgram ==
    /\ p_args = None
    /\ \E program \in ProgramDocuments, kind \in ChannelKind, area_name \in {"Tokyo", "Osaka"} :
         /\ p_args' = Some([program |-> program, kind |-> kind, area_name |-> area_name])
         /\ p_result' = Some(from_program(program, kind, area_name))
    /\ UNCHANGED <<session_vars, decoder_vars, crypto_vars, url_vars, cli_vars, parse_vars, thread_vars, app_vars>>

\* One call of from_program, on any arguments.
InfoSpec == Init /\ [][FromProgram]_vars

\* ------------------------------------------- parse_m3u8, media playlists
MaxEntries == 2

\* The Option<Key> of a segment: none, or a key whose URI and IV each are
\* absent, empty or given.
SegmentKeys ==
    {None} \cup {Some(k) : k \in [uri : {None, Some(<<>>), Some(<<"key.bin">>)},
                                  iv : {None, Some(<<>>), Some(<<"0", "x", "1">>)}]}

MediaSegments == [uri : {<<"seg1.ts">>, <<"seg2.ts">>}, key : SegmentKeys]

\* parse_m3u8 is called on the text of a media playlist and returns.
ParseM3u8 ==
    /\ m_args = None
    /\ \E segments_in \in UNION {[1..n -> MediaSegments] : n \in 0..MaxEntries},
          base_url \in {<<"https:", "/", "/", "example.com", "/", "live", "/", "playlist.m3u8">>} :
         LET content == [kind |-> "media", variants |-> <<>>, segments |-> segments_in]
         IN  /\ m_args' = Some([content |-> content, base_url |-> base_url])
             /\ m_result' = Some(ParseM3u8Text(content, base_url))
    /\ UNCHANGED <<session_vars, decoder_vars, crypto_vars, url_vars, cli_vars, info_vars,
                   thread_vars, app_vars>>

\* One call of parse_m3u8, on any media playlist.
ParseSpec == Init /\ [][ParseM3u8]_vars

\* ------------------------------------------- run_audio_thread (player.rs)
\* The most buffers the senders send in one run.
MaxBuffers == 4

\* A sender sends a buffer: an empty one (the flush) or PCM samples.
TxSend ==
    /\ t_tx
    /\ Len(t_sent) < MaxBuffers
    /\ \E flush \in BOOLEAN :
         LET samples == IF flush THEN EmptyBuffer ELSE Pcm(Len(t_sent) + 1)
         IN  /\ t_queue' = Append(t_queue, samples)
             /\ t_sent' = Append(t_sent, samples)
    /\ UNCHANGED <<t_pc, t_tx, waiting_for_new_samples, t_notified, t_sink, t_received, t_last>>
    /\ UNCHANGED <<session_vars, decoder_vars, crypto_vars, url_vars, cli_vars, info_vars,
                   parse_vars, app_vars>>

\* The last sender of the audio channel is dropped.
TxDrop ==
    /\ t_tx
    /\ t_tx' = FALSE
    /\ UNCHANGED <<t_pc, t_queue, waiting_for_new_samples, t_notified, t_sink, t_sent,
                   t_received, t_last>>
    /\ UNCHANGED <<session_vars, decoder_vars, crypto_vars, url_vars, cli_vars, info_vars,
                   parse_vars, app_vars>>

\* The acquisition loop breaks with a stream and a sink; sample_count = 0
\* and waiting_for_new_samples = false.
ThreadAcquired ==
    /\ t_pc = "acquire"
    /\ t_pc' = "recv"
    /\ waiting_for_new_samples' = FALSE
    /\ UNCHANGED <<t_tx, t_queue, t_notified, t_sink, t_sent, t_received, t_last>>
    /\ UNCHANGED <<session_vars, decoder_vars, crypto_vars, url_vars, cli_vars, info_vars,
                   parse_vars, app_vars>>

\* A thread that notifies on every non-empty buffer.
NotifiesOn_EveryBuffer(waiting, samples) == ~is_empty(samples)

\* Whether the thread sends on playback_notify for a received buffer.
NotifiesOn(waiting, samples) == ~is_empty(samples) /\ waiting

\* waiting_for_new_samples after a received buffer: set by a flush, and
\* cleared by the notification.
WaitingAfter(waiting, samples) ==
    IF is_empty(samples) THEN TRUE
    ELSE IF waiting THEN FALSE ELSE waiting

\* rx.recv_timeout returned Ok(samples).
ThreadRecv ==
    /\ t_pc = "recv"
    /\ t_queue # <<>>
    /\ LET samples == Head(t_queue)
       IN  /\ t_sink' = SinkAfter(t_sink, samples)
           /\ t_notified' = IF NotifiesOn(waiting_for_new_samples, samples)
                            THEN t_notified + 1 ELSE t_notified
           /\ waiting_for_new_samples' = WaitingAfter(waiting_for_new_samples, samples)
           /\ t_received' = Append(t_received, samples)
    /\ t_queue' = Tail(t_queue)
    /\ t_last' = "ok"
    /\ UNCHANGED <<t_pc, t_tx, t_sent>>
    /\ UNCHANGED <<session_vars, decoder_vars, crypto_vars, url_vars, cli_vars, info_vars,
                   parse_vars, app_vars>>

\* A thread that leaves its loop on a timeout.
AfterTimeout_Break == "exited"

\* Err(Timeout) => continue.
AfterTimeout == "recv"

\* rx.recv_timeout returned Err(Timeout): nothing arrived within 100 ms and
\* a sender is alive.
ThreadTimeout ==
    /\ t_pc = "recv"
    /\ t_queue = <<>>
    /\ t_tx
    /\ t_pc' = AfterTimeout
    /\ t_last' = "timeout"
    /\ UNCHANGED <<t_tx, t_queue, waiting_for_new_samples, t_notified, t_sink, t_sent,
                   t_received>>
    /\ UNCHANGED <<session_vars, decoder_vars, crypto_vars, url_vars, cli_vars, info_vars,
                   parse_vars, app_vars>>

\* rx.recv_timeout returned Err(Disconnected): the queue is empty and no
\* sender is left; break.
ThreadDisconnected ==
    /\ t_pc = "recv"
    /\ t_queue = <<>>
    /\ ~t_tx
    /\ t_pc' = "exited"
    /\ t_last' = "disconnected"
    /\ UNCHANGED <<t_tx, t_queue, waiting_for_new_samples, t_notified, t_sink, t_sent,
                   t_received>>
    /\ UNCHANGED <<session_vars, decoder_vars, crypto_vars, url_vars, cli_vars, info_vars,
                   parse_vars, app_vars>>

ThreadNext ==
    \/ TxSend
    \/ TxDrop
    \/ ThreadAcquired
    \/ ThreadRecv
    \/ ThreadTimeout
    \/ ThreadDisconnected

\* run_audio_thread of player.rs with any senders.
ThreadSpec == Init /\ [][ThreadNext]_vars

\* ------------------------------------ run_interactive_player: draw loop
\* The most loop turns of one run.
MaxFrames == 10

\* The AppState is built with is_loading: true; the channels, the audio
\* thread and the stream task are set up, Tui::new()? succeeds or returns
\* the error, and state.is_loading = false.
AppSetup ==
    /\ app_pc = "setup"
    /\ \E tui_ok \in BOOLEAN :
         IF tui_ok
         THEN /\ is_loading' = FALSE
              /\ app_pc' = "draw"
         ELSE /\ app_pc' = "done"
              /\ UNCHANGED is_loading
    /\ UNCHANGED <<app_channel, animation_frame, status_drawn>>
    /\ UNCHANGED <<session_vars, decoder_vars, crypto_vars, url_vars, cli_vars, info_vars,
                   parse_vars, thread_vars>>

\* The status bar: the spinner line while loading, the playing line
\* otherwise.
render_status_bar(loading) == IF loading THEN "loading" ELSE "playing"

\* tui.draw(&state)?
AppDraw ==
    /\ app_pc = "draw"
    /\ \E draw_ok \in BOOLEAN :
         IF draw_ok
         THEN /\ status_drawn' = render_status_bar(is_loading)
              /\ app_pc' = "poll"
         ELSE /\ app_pc' = "done"
              /\ UNCHANGED status_drawn
    /\ UNCHANGED <<app_channel, is_loading, animation_frame>>
    /\ UNCHANGED <<session_vars, decoder_vars, crypto_vars, url_vars, cli_vars, info_vars,
                   parse_vars, thread_vars>>

\* No event within 100 ms, an event that is no key press, or a key with no
\* arm: the frame counter advances and the loop turns.
AppPollNone ==
    /\ app_pc = "poll"
    /\ animation_frame < MaxFrames
    /\ animation_frame' = animation_frame + 1
    /\ app_pc' = "draw"
    /\ UNCHANGED <<app_channel, is_loading, status_drawn>>
    /\ UNCHANGED <<session_vars, decoder_vars, crypto_vars, url_vars, cli_vars, info_vars,
                   parse_vars, thread_vars>>

\* A channel key: the arm does nothing when the key selects the selected
\* channel; otherwise it stores the channel and sets is_loading.
AppKeyBegin(k) ==
    /\ app_pc = "poll"
    /\ animation_frame < MaxFrames
    /\ LET new_channel == KeyTarget(k, app_channel)
       IN  IF app_channel # new_channel
           THEN /\ app_channel' = new_channel
                /\ is_loading' = TRUE
                /\ app_pc' = "handler"
                /\ UNCHANGED animation_frame
           ELSE /\ animation_frame' = animation_frame + 1
                /\ app_pc' = "draw"
                /\ UNCHANGED <<app_channel, is_loading>>
    /\ UNCHANGED status_drawn
    /\ UNCHANGED <<session_vars, decoder_vars, crypto_vars, url_vars, cli_vars, info_vars,
                   parse_vars, thread_vars>>

\* An arm that leaves is_loading set for the stream loop to clear.
LoadingAfterSwitch_Stay == TRUE

\* state.is_loading = false, the last statement of every channel arm.
LoadingAfterSwitch == FALSE

\* The rest of the arm: the program info is rebuilt, the channel is sent on
\* the signal, is_loading is reset; then the frame counter advances.
AppKeyEnd ==
    /\ app_pc = "handler"
    /\ is_loading' = LoadingAfterSwitch
    /\ animation_frame' = animation_frame + 1
    /\ app_pc' = "draw"
    /\ UNCHANGED <<app_channel, status_drawn>>
    /\ UNCHANGED <<session_vars, decoder_vars, crypto_vars, url_vars, cli_vars, info_vars,
                   parse_vars, thread_vars>>

\* 'q' or Esc: break.
AppQuit ==
    /\ app_pc = "poll"
    /\ app_pc' = "done"
    /\ UNCHANGED <<app_channel, is_loading, animation_frame, status_drawn>>
    /\ UNCHANGED <<session_vars, decoder_vars, crypto_vars, url_vars, cli_vars, info_vars,
                   parse_vars, thread_vars>>

AppNext ==
    \/ AppSetup
    \/ AppDraw
    \/ AppPollNone
    \/ \E k \in ChannelKeys : AppKeyBegin(k)
    \/ AppKeyEnd
    \/ AppQuit

\* The draw loop of run_interactive_player with any keys.
AppSpec == Init /\ [][AppNext]_vars

\* ------------------------------------------------------------------ types
TypeOK ==
    /\ ui_pc \in {"loop", "done"}
    /\ ui_channel \in ChannelKind
    /\ signal \in ChannelKind
    /\ current_channel \in ChannelKind
    /\ changed \in BOOLEAN
    /\ changed_at \in {"none", "segment", "last_segment", "other"}
    /\ pc \in AwaitPoints \cup {"start", "check", "seg", "returned", "aborted"}
    /\ a_pc \in {"acquire", "retry", "recv", "exited"}
    /\ seen_segments \subseteq SegUrls
    /\ Len(audio_q) <= MaxQueue

\* ------------------------------------------------------------- properties
\* The channel a PCM buffer was decoded for.
ChannelOf(samples) == samples[1][1]

\* C1: within one channel session (from the adoption of a channel to the
\* next change) every segment URL is fetched at most once and its PCM is
\* sent at most once, however often the playlists list it; an entry whose
\* URL is already in seen_segments is skipped without a request.
C1_FetchedAtMostOnce ==
    /\ \A u \in SegUrls : fetches[u] <= 1
    /\ \A i, j \in 1..Len(session_sent) : i # j => session_sent[i] # session_sent[j]
    /\ \A i \in 1..Len(done) : done[i].outcome = "seen" => fetches[done[i].url] = 1

\* A later poll lists a segment fetched before and a new one: the first was
\* skipped, the second is being fetched.
C1_Witness ==
    /\ pc = "fetch_segment"
    /\ Len(done) = 1 /\ done[1].outcome = "seen"
    /\ Cardinality(seen_segments) = 2

\* C2: a failed key fetch only abandons the cycle; run_stream_loop never
\* returns because of it.
C2_KeyFailureKeepsLooping == pc # "returned"

\* C3: seen_segments is empty right after a different channel was adopted
\* and only ever holds URLs of the current channel that were fetched since
\* that adoption.
C3_SeenOnlyCurrentChannel ==
    \A u \in seen_segments : u[1] = current_channel /\ fetches[u] >= 1

\* R2 was just adopted after a segment of R1 had been fetched and sent.
C3_Witness ==
    /\ current_channel = "R2"
    /\ seen_segments = {}
    /\ audio_q = <<Pcm(<<"R1", 1>>), EmptyBuffer>>

C4_FlushSeparates ==
    /\ \A i, j \in 1..Len(audio_q) :
          (i < j /\ ~is_empty(audio_q[i]) /\ ~is_empty(audio_q[j])
                 /\ ChannelOf(audio_q[i]) # ChannelOf(audio_q[j]))
             => \E m \in (i + 1)..(j - 1) : is_empty(audio_q[m])
    /\ \A i \in 1..Len(audio_q) :
          (\A m \in i..Len(audio_q) : ~is_empty(audio_q[m]))
             => ChannelOf(audio_q[i]) = current_channel

C4_OneFlushPerAdoption ==
    /\ (pc = "check" /\ current_channel' # current_channel)
          => audio_q' = Append(audio_q, EmptyBuffer)
    /\ (Len(audio_q') > Len(audio_q) /\ is_empty(audio_q'[Len(audio_q')]))
          => (pc = "check" /\ current_channel' # current_channel)

\* C4: on the audio channel a flush (an empty buffer) lies between the PCM
\* of one channel and the PCM of the next, every PCM buffer behind the last
\* flush belongs to the current channel, and a flush is sent exactly once
\* per adoption of a different channel and at no other time.
C4_FlushBetweenChannels == []C4_FlushSeparates /\ [][C4_OneFlushPerAdoption]_vars

\* The flush of the adoption of R2 with the first PCM of R2 behind it.
C4_Witness ==
    /\ current_channel = "R2"
    /\ audio_q = <<EmptyBuffer, Pcm(<<"R2", 1>>)>>

\* C5: while the user does not quit, a change of the switch signal to a
\* channel other than the loop's current one is eventually adopted (the
\* loop's current channel becomes the signalled one), whatever the loop was
\* doing when the change was written.
C5_ChangeEventuallyAdopted ==
    (ui_pc = "loop" /\ signal # current_channel)
        ~> (current_channel = signal \/ ui_pc = "done")

C7_LatestValue ==
    /\ ~changed => current_channel = ui_channel
    /\ \A u \in SegUrls : fetches[u] > 0 => u[1] = current_channel
    /\ ui_pc = "loop" => \A k \in ChannelKeys : ENABLED KeyPress(k)

C7_AdoptsLatest ==
    /\ current_channel' # current_channel
          => (current_channel' = ui_channel /\ ~changed' /\ Len(audio_q') <= Len(audio_q) + 1)
    /\ (Len(audio_q') > Len(audio_q) /\ is_empty(audio_q'[Len(audio_q')]))
          => (changed /\ ~changed')

\* C7: the switch signal holds only the latest value.  A write never waits
\* for the loop; whenever the loop changes channel it takes the channel the
\* user selected last, values overwritten before the loop looked are never
\* made current and nothing is fetched for them, and a burst of writes is
\* answered by at most one flush.
C7_LatestValueOnly == []C7_LatestValue /\ [][C7_AdoptsLatest]_vars

\* Two changes were written before the loop looked; the loop has just
\* adopted the second and sent one flush.
C7_Witness ==
    /\ coalesced
    /\ current_channel = ui_channel
    /\ audio_q = <<EmptyBuffer>>

C8_BackOff ==
    /\ (pc \in {"resolve", "fetch_m3u8"} /\ pc' # pc)
          => pc' \in {"sleep2", "fetch_m3u8", "fetch_key", "seg", "aborted"}
    /\ (pc \in {"resolve", "fetch_m3u8"} /\ pc' = "sleep2")
          => /\ UNCHANGED <<current_channel, seen_segments, resolved_urls, session_sent>>
             /\ Len(audio_q') <= Len(audio_q)
    /\ pc = "sleep2"
          => /\ pc' \in {"sleep2", "check", "aborted"}
             /\ UNCHANGED <<current_channel, seen_segments, resolved_urls, session_sent>>
             /\ Len(audio_q') <= Len(audio_q)

\* C8: a failure to resolve, fetch or parse the playlist is followed by the
\* 2 s back-off and then the next iteration, with current_channel,
\* seen_segments and resolved_urls as they were and nothing sent on the
\* audio channel; the loop never returns because of such a failure.
C8_PlaylistFailureBacksOff == [][C8_BackOff]_vars

\* The playlist fetch of a later cycle failed: the loop is backing off with
\* the segment it fetched before still recorded.
C8_Witness ==
    /\ pc = "sleep2"
    /\ IsSome(resolved_urls[current_channel])
    /\ seen_segments # {}

\* The PCM buffers of this cycle, in the order the cycle produced them.
DonePcm == SelectSeq(done, LAMBDA e : e.outcome = "pcm")

IsSuffix(a, b) ==
    /\ Len(a) <= Len(b)
    /\ \A i \in 1..Len(a) : a[i] = b[Len(b) - Len(a) + i]

C9_NextSegment ==
    /\ (pc = "fetch_segment" /\ pc' # "fetch_segment")
          => \/ pc' = "aborted"
             \/ /\ pc' = "seg"
                /\ segments' = Tail(segments)
                /\ UNCHANGED <<current_channel, seen_segments>>
    /\ (pc = "seg" /\ segments # <<>> /\ ~changed /\ ui_pc = "loop"
             /\ <<pc, segments>>' # <<pc, segments>>)
          => IF Head(segments).url \in seen_segments
             THEN pc' = "seg" /\ segments' = Tail(segments) /\ fetches' = fetches
             ELSE pc' = "fetch_segment" /\ fetches'[Head(segments).url] = 1

C9_Delivered == IsSuffix([i \in 1..Len(DonePcm) |-> Pcm(DonePcm[i].url)], session_sent)

\* C9: a segment that cannot be fetched, decrypted or decoded is the only
\* one skipped: the loop moves on to the next entry of the same playlist at
\* once, fetches every later segment not yet seen and sends what decodes,
\* and neither backs off nor returns.
C9_SegmentFailureSkipsOne == []C9_Delivered /\ [][C9_NextSegment]_vars

\* The first segment of the cycle failed, the second was fetched, decoded
\* and sent.
C9_Witness ==
    /\ pc = "seg"
    /\ Len(done) = 2
    /\ done[1].outcome \in {"fetch_err", "decrypt_err", "no_pcm"}
    /\ done[2].outcome = "pcm"
    /\ session_sent = <<Pcm(done[2].url)>>

HasFlush(q) == \E i \in 1..Len(q) : is_empty(q[i])

\* C10: within one channel session the PCM buffers go onto the audio
\* channel in playlist order, cycle after cycle, and the audio thread
\* appends them to the sink in the order sent: what is in the sink and on
\* the channel is, in order, the tail of what the session sent, nothing
\* lost, doubled or out of place.
C10_OrderPreserved ==
    /\ \A i, j \in 1..Len(done) : i < j => done[i].url[2] < done[j].url[2]
    /\ IsSuffix([i \in 1..Len(DonePcm) |-> Pcm(DonePcm[i].url)], session_sent)
    /\ ~HasFlush(audio_q) => IsSuffix(sink \o audio_q, session_sent)
    /\ HasFlush(audio_q) => IsSuffix(session_sent, audio_q)

\* Two segments of one cycle are in the sink, in playlist order.
C10_Witness ==
    /\ a_pc = "recv"
    /\ sink = <<Pcm(<<"R1", 1>>), Pcm(<<"R1", 2>>)>>
    /\ session_sent = sink

\* C11: what is queued in the sink is, in receipt order, the tail of the
\* non-empty buffers received since the most recent empty buffer (the head
\* of them has been played); nothing older and no empty buffer is in it,
\* and the sink is in the playing state.
C11_SinkHoldsTailSinceFlush ==
    /\ IsSuffix(sink, heard)
    /\ \A i \in 1..Len(sink) : ~is_empty(sink[i])
    /\ playing

\* The flush of the switch to R2 has been received; of the two buffers of
\* R2 received since, the first has been played and the second is queued.
C11_Witness ==
    /\ a_pc = "recv"
    /\ heard = <<Pcm(<<"R2", 1>>), Pcm(<<"R2", 2>>)>>
    /\ sink = <<Pcm(<<"R2", 2>>)>>

\* The awaits of run_stream_loop that are network calls.
NetworkCalls == {"resolve", "fetch_m3u8", "fetch_key", "fetch_segment"}

C12_NoFetchAfterQuit == ui_pc = "done" => (pc' \in NetworkCalls => pc' = pc)

C12_AllStopped == audio_tx_dropped /\ a_pc = "exited"

\* C12: once the user has quit, the stream task starts no further network
\* call and is eventually gone, and the audio thread eventually leaves its
\* loop and returns, whatever either was doing when the user quit.
C12_QuitStopsEverything ==
    [][C12_NoFetchAfterQuit]_vars /\ (ui_pc = "done" ~> C12_AllStopped)

IsPrefix(a, b) == Len(a) <= Len(b) /\ \A i \in 1..Len(a) : a[i] = b[i]

C13_Acquiring ==
    a_pc \in {"acquire", "retry"}
        => /\ a_pc' \in {"acquire", "retry", "recv"}
           /\ (a_pc = "retry" /\ a_pc' # a_pc) => a_pc' = "acquire"
           /\ IsPrefix(audio_q, audio_q')
           /\ sink' = <<>>

C13_InOrder ==
    (a_pc = "recv" /\ Len(audio_q') < Len(audio_q))
        => /\ audio_q' = Tail(audio_q)
           /\ sink' = IF is_empty(Head(audio_q)) THEN <<>> ELSE Append(sink, Head(audio_q))

\* C13: while the audio device cannot be opened the thread neither returns
\* nor touches the audio channel: it sleeps and tries again, and whatever is
\* sent meanwhile (flushes included) stays on the channel in the order
\* sent.  Once the device is open the thread takes the buffers one by one
\* from the front, each cleared on or appended to the sink in turn.
C13_RetryKeepsBacklog == [][C13_Acquiring /\ C13_InOrder]_vars

\* The device could not be opened and the thread is waiting to retry; a
\* buffer of R1 and the flush of a channel change are waiting in order.
C13_Witness ==
    /\ a_pc = "retry"
    /\ audio_q = <<Pcm(<<"R1", 1>>), EmptyBuffer>>

C14_NeverResolvedAgain == pc = "resolve" => ~IsSome(resolved_urls[current_channel])

C14_EntryKept ==
    \A c \in ChannelKind :
        IsSome(resolved_urls[c]) => resolved_urls'[c] = resolved_urls[c]

\* C14: an entry of resolved_urls, once there, is never changed or removed,
\* and resolve_master_playlist is never called for a channel that has one:
\* not after switching away and back, not after the cached URL failed to
\* fetch or parse.
C14_ResolvedOnce == []C14_NeverResolvedAgain /\ [][C14_EntryKept]_vars

\* R1 has just been adopted after a burst of key presses and the loop went
\* straight to the playlist fetch: R1's entry was there from before.
C14_Witness ==
    /\ coalesced
    /\ pc = "fetch_m3u8"
    /\ current_channel = "R1"
    /\ IsSome(resolved_urls["R1"])

\* C15: every URL in resolved_urls is the URL of a media playlist; a URL
\* behind which the server keeps a master playlist is never cached.
C15_CachedUrlsAreMedia ==
    \A c \in ChannelKind :
        IsSome(resolved_urls[c]) => UrlKind(Unwrap(resolved_urls[c])) = "media"

\* The playlist entries of the cycle under way, visited or not.
CycleEntries == done \o segments

\* decrypt_segment is called for the segment in flight and fails.
DecryptFails == FetchSegmentReturn /\ done'[Len(done')].outcome = "decrypt_err"

C16_KeyOfFirstSegment ==
    /\ pc = "fetch_key"
          => (done = <<>> /\ key = None /\ segments # <<>> /\ IsSome(segments[1].key_url))
    /\ (pc \in {"seg", "fetch_segment"} /\ CycleEntries # <<>>)
          => (IsSome(key) <=> IsSome(CycleEntries[1].key_url))
    /\ (pc = "fetch_segment" /\ ui_pc = "loop")
          => (IsSome(key) <=> ENABLED DecryptFails)

C16_OneKeyFetch ==
    /\ (pc' = "fetch_key" /\ pc # "fetch_key") => pc = "fetch_m3u8"
    /\ pc = "fetch_key" => pc' \in {"fetch_key", "seg", "returned", "aborted"}
    /\ (pc \in {"seg", "fetch_segment"} /\ pc' \in {"seg", "fetch_segment"})
          => key' = key

\* C16: in a poll cycle the key is fetched at most once, before any segment
\* of the cycle, and exactly when the first parsed segment declares a key
\* URL; with a key every fetched segment of the cycle goes through
\* decrypt_segment whatever its own key URL, without one none does.
C16_OneKeyPerCycle == []C16_KeyOfFirstSegment /\ [][C16_OneKeyFetch]_vars

\* The first segment of the cycle declared a key URL, the second did not;
\* the second was put through decrypt_segment all the same, and that failed.
C16_Witness ==
    /\ pc = "seg"
    /\ Len(done) = 2
    /\ IsSome(done[1].key_url)
    /\ ~IsSome(done[2].key_url)
    /\ done[2].outcome = "decrypt_err"

\* C17: in every poll cycle whose playlist has a segment that declares a
\* key URL, the key is fetched in that cycle: the segment loop never runs
\* without a key over such a playlist.
C17_KeyFetchedIfAnyDeclares ==
    (pc \in {"seg", "fetch_segment"}
        /\ \E i \in 1..Len(CycleEntries) : IsSome(CycleEntries[i].key_url))
      => IsSome(key)

\* A buffer has just been sent on the audio channel, and it is empty.
EmptySent ==
    /\ Len(audio_q') = Len(audio_q) + 1
    /\ is_empty(audio_q'[Len(audio_q')])

\* The segment in flight has just been dealt with, and gave no samples.
SegmentGaveNothing ==
    /\ pc = "fetch_segment"
    /\ pc' = "seg"
    /\ done'[Len(done')].outcome # "pcm"

C18_EmptyOnlyOnAdoption ==
    /\ EmptySent => (pc = "check" /\ current_channel' # current_channel)
    /\ SegmentGaveNothing => UNCHANGED <<audio_q, sink>>

\* C18: the stream loop sends an empty buffer only in the step that adopts
\* a different channel; a segment whose fetch, decryption or decode fails,
\* or that decodes to no samples, sends nothing and leaves the sink alone.
C18_EmptyBufferMeansAdoption == [][C18_EmptyOnlyOnAdoption]_vars

\* A segment decoded to no samples while the sink held audio, and the sink
\* still holds it with no flush on its way.
C18_Witness ==
    /\ pc = "seg"
    /\ done # <<>>
    /\ done[Len(done)].outcome = "no_pcm"
    /\ sink # <<>>
    /\ ~HasFlush(audio_q)

\* The samples of the frames among the first n packets that decode.
RECURSIVE DecodableSamples(_, _)
DecodableSamples(packets, n) ==
    IF n = 0 THEN <<>>
    ELSE DecodableSamples(packets, n - 1) \o (IF packets[n] = "frame" THEN Frame(n) ELSE <<>>)

\* The input never gets as far as the packet loop.
Undecodable(input) == input.probe = "err" \/ ~input.aac_track \/ input.make = "err"

\* C19: decode_aac_to_pcm returns Ok on every input: the empty sequence
\* when the input cannot be probed, has no AAC track or gets no decoder,
\* and otherwise the samples of every frame that decodes among the packets
\* read before the first read error, the frames that do not decode being
\* left out; in the loop pcm_samples holds those samples so far.
C19_DecodeNeverFails ==
    /\ IsSome(d_result) <=> d_pc = "returned"
    /\ d_pc = "loop"
          => d_pcm_samples
               = DecodableSamples(d_input.packets, Len(d_input.packets) - Len(d_rest))
    /\ d_pc = "returned"
          => /\ Unwrap(d_result).ok
             /\ Unwrap(d_result).value
                  = IF Undecodable(d_input) THEN <<>>
                    ELSE DecodableSamples(d_input.packets, Len(d_input.packets))

\* A frame that does not decode sits between two that do, the data then
\* breaks off with a read error, and both decoded frames are returned.
C19_Witness ==
    /\ d_pc = "returned"
    /\ d_input.packets = <<"frame", "bad_frame", "frame">>
    /\ d_input.end = "io_err"
    /\ d_result = Some(Ok(Frame(1) \o Frame(3)))

\* The number eight bytes encode big-endian, as four 16-bit limbs.
BigEndianValue(bytes) == [k \in 1..4 |-> bytes[2 * k - 1] * 256 + bytes[2 * k]]

\* C20: when decrypt_segment is given no explicit IV, the IV it hands to
\* the cipher has 16 bytes, the first 8 zero and the last 8 the big-endian
\* encoding of seq_no.
C20_DerivedIvIsBigEndianSeqNo ==
    (IsSome(c_args) /\ ~IsSome(Unwrap(c_args).iv_hex) /\ Unwrap(c_args).key_len = KEY_LEN)
      => /\ IsSome(c_iv)
         /\ Len(Unwrap(c_iv)) = 16
         /\ \A i \in 1..16 : Unwrap(c_iv)[i] \in 0..255
         /\ \A i \in 1..8 : Unwrap(c_iv)[i] = 0
         /\ BigEndianValue(SubSeq(Unwrap(c_iv), 9, 16)) = Unwrap(c_args).seq_no

\* A segment with no explicit IV and sequence number 0x0000_0001_0100_ffff
\* was decrypted with the IV 00..00 00 00 00 01 01 00 ff ff.
C20_Witness ==
    /\ IsSome(c_args)
    /\ ~IsSome(Unwrap(c_args).iv_hex)
    /\ Unwrap(c_args).seq_no = <<0, 1, 256, 65535>>
    /\ IsSome(c_result)
    /\ Unwrap(c_result).ok
    /\ c_iv = Some(Rep(0, 8) \o <<0, 0, 0, 1, 1, 0, 255, 255>>)

\* The string without one leading 0x or 0X, if it has one.
StripOnePrefix(str) ==
    IF Len(str) >= 2 /\ SubSeq(str, 1, 2) \in {<<"0", "x">>, <<"0", "X">>}
    THEN SubSeq(str, 3, Len(str))
    ELSE str

\* The string is the hex of exactly 16 bytes.
IsHexOf16Bytes(str) == Len(str) = 32 /\ \A i \in 1..Len(str) : IsHexChar(str[i])

\* C21: decrypt_segment returns an error, and no plaintext, whenever the
\* key is not 16 bytes long (that check coming first, before the IV is
\* looked at) or the explicit IV, with one optional 0x or 0X prefix
\* stripped, is not the hex of exactly 16 bytes.
C21_BadKeyOrIvIsAnError ==
    IsSome(c_args) =>
      LET args == Unwrap(c_args)
          ret == Unwrap(c_result)
      IN  /\ args.key_len # 16
               => (~ret.ok /\ ret.error = "Invalid key length" /\ c_iv = None)
          /\ (IsSome(args.iv_hex) /\ ~IsHexOf16Bytes(StripOnePrefix(Unwrap(args.iv_hex))))
               => ~ret.ok

\* The text up to and including its last slash.
UpToLastSlash(str) ==
    SubSeq(str, 1, CHOOSE i \in 1..Len(str) :
                     str[i] = "/" /\ \A j \in (i + 1)..Len(str) : str[j] # "/")

\* C23: normalize_url returns an http:// or https:// reference unchanged,
\* puts "https:" in front of a reference that starts with //, whatever the
\* base, and joins a relative reference against the directory of a base
\* that is a URL: the base up to its last slash followed by the reference,
\* and one directory further up for a reference that starts with "../".
C23_NormalizeByKindOfReference ==
    IsSome(n_args) =>
      LET base_url == Unwrap(n_args).base_url
          relative_url == Unwrap(n_args).relative_url
          result == Unwrap(n_result)
      IN  /\ relative_url \in AbsoluteRefs => result = relative_url
          /\ relative_url \in SchemeRelativeRefs => result = <<"https:">> \o relative_url
          /\ (relative_url \in PlainRelativeRefs /\ IsSome(UrlParse(base_url)))
               => result = UpToLastSlash(base_url) \o relative_url
          /\ (relative_url \in UpRelativeRefs /\ IsSome(UrlParse(base_url))
                /\ Len(Unwrap(UrlParse(base_url)).path) > 2)
               => result = UpToLastSlash(SubSeq(base_url, 1, Len(UpToLastSlash(base_url)) - 1))
                             \o SubSeq(relative_url, 3, Len(relative_url))

\* https://example.com/path/to/playlist.m3u8 and segment.ts gave
\* https://example.com/path/to/segment.ts.
C23_Witness ==
    /\ IsSome(n_args)
    /\ Unwrap(n_args).base_url
         = <<"https:", "/", "/", "example.com", "/", "path", "/", "to", "/", "playlist.m3u8">>
    /\ Unwrap(n_args).relative_url = <<"segment.ts">>
    /\ n_result = Some(<<"https:", "/", "/", "example.com", "/", "path", "/", "to", "/",
                         "segment.ts">>)

\* C24: for a reference that starts with a single slash and a base that is
\* a URL, normalize_url returns the base with its path replaced by the
\* reference: scheme, host and port are the base's.
C24_RootRelativeKeepsOrigin ==
    (IsSome(n_args) /\ Unwrap(n_args).relative_url \in RootRelativeRefs
       /\ IsSome(UrlParse(Unwrap(n_args).base_url)))
      => Unwrap(n_result)
           = UrlString([Unwrap(UrlParse(Unwrap(n_args).base_url))
                          EXCEPT !.path = Unwrap(n_args).relative_url])

\* C22: resolve_master_playlist returns the URL itself when the text is a
\* media playlist, the first variant's URI normalized against the URL when
\* it is a master playlist with a variant, and an error when the fetch
\* fails, the text is no playlist or the master playlist has no variant.
C22_ResolveByKindOfPlaylist ==
    IsSome(r_args) =>
      LET m3u8_url == Unwrap(r_args).m3u8_url
          resp == Unwrap(r_args).resp
          result == Unwrap(r_result)
      IN  /\ resp.kind = "media" => result = Ok(m3u8_url)
          /\ (resp.kind = "master" /\ resp.variants # <<>>)
               => result = Ok(normalize_url(m3u8_url, resp.variants[1]))
          /\ (resp.kind \in {"neterr", "garbage"}
                \/ (resp.kind = "master" /\ resp.variants = <<>>))
               => ~result.ok

\* The play command cannot go ahead: the configuration could not be
\* fetched, or does not list the area, or the kind is none of r1, r2, fm.
PlayRefused ==
    /\ IsSome(cli_config)
    /\ \/ ~Unwrap(cli_config).ok
       \/ \A i \in 1..Len(Unwrap(cli_config).value) :
             Unwrap(cli_config).value[i] # Unwrap(cli_args).area
       \/ Unwrap(cli_args).kind \notin {"r1", "r2", "fm"}

\* C25: when the configuration fetch fails, the area is not in the
\* configuration or the kind is none of r1, r2, fm, the play command never
\* starts playback and ends with a message on stderr and exit code 1; in
\* every other run it has started playback by the time it ends, whether or
\* not the programme could be fetched.
C25_PlayFailsOnlyOnConfigAreaKind ==
    /\ PlayRefused => ~cli_playing
    /\ (PlayRefused /\ cli_pc = "exited")
          => (Unwrap(cli_exit).code = 1 /\ IsSome(Unwrap(cli_exit).stderr))
    /\ (~PlayRefused /\ cli_pc \in {"play_live", "main", "exited"}) => cli_playing

\* The programme could not be fetched, playback started all the same and
\* ended well: exit code 0.
C25_Witness ==
    /\ cli_pc = "exited"
    /\ IsSome(cli_program)
    /\ ~Unwrap(cli_program).ok
    /\ cli_playing
    /\ Unwrap(cli_exit).code = 0

\* The present event of the channel the kind selects, if the document is
\* there and has one.
SelectedEvent ==
    LET program == Unwrap(p_args).program
        kind == Unwrap(p_args).kind
    IN  IF ~IsSome(program) THEN None
        ELSE IF kind = "R1" THEN Unwrap(program).r1.present
        ELSE IF kind = "R2" THEN Unwrap(program).r2.present
        ELSE Unwrap(program).r3.present

\* C26: from_program gives the placeholder title, an empty description and
\* an empty start time when the document is absent or the selected channel
\* has no present event; otherwise the title is the name of the about
\* record when there is one and the name of the event when not.  The
\* station name is the display name of the selected channel.
C26_ProgramInfoFields ==
    IsSome(p_args) =>
      LET info == Unwrap(p_result)
      IN  /\ info.station_name = display_name(Unwrap(p_args).kind)
          /\ ~IsSome(SelectedEvent)
               => (info.program_title = <<"placeholder">> /\ info.description = <<>>
                     /\ info.start_time = <<>>)
          /\ (IsSome(SelectedEvent) /\ IsSome(Unwrap(SelectedEvent).about))
               => info.program_title = Unwrap(Unwrap(SelectedEvent).about).name
          /\ (IsSome(SelectedEvent) /\ ~IsSome(Unwrap(SelectedEvent).about))
               => info.program_title = Unwrap(SelectedEvent).name

\* FM was selected, its event has an about record and R1 has no event: the
\* title is the name of FM's about record.
C26_Witness ==
    /\ IsSome(p_args)
    /\ Unwrap(p_args).kind = "Fm"
    /\ IsSome(Unwrap(p_args).program)
    /\ ~IsSome(Unwrap(Unwrap(p_args).program).r1.present)
    /\ Unwrap(p_result).program_title = <<"r3", "about">>
    /\ Unwrap(p_result).station_name = "FM"

\* The PCM of the segment at this URL was sent on the audio channel since
\* the current channel was adopted.
Delivered(url) == \E i \in 1..Len(session_sent) : session_sent[i] = Pcm(url)

\* C27: every URL in seen_segments is the URL of a segment of the current
\* channel that was fetched and whose audio was sent on the audio channel;
\* the one segment whose fetch is under way is left aside.
C27_SeenWereDelivered ==
    \A url \in seen_segments :
       \/ Delivered(url)
       \/ (pc = "fetch_segment" /\ url = Head(segments).url)

\* The declared value is absent or empty.
AbsentOrEmpty(k, field) ==
    \/ ~IsSome(k)
    \/ (field = "uri" /\ Unwrap(k).uri \in {None, Some(<<>>)})
    \/ (field = "iv" /\ Unwrap(k).iv \in {None, Some(<<>>)})

\* C28: on a media playlist parse_m3u8 returns one Segment per entry, in
\* the order of the playlist, with seq_no the entry's 0-based position in
\* this text whatever the segment is, and with key_url and iv none exactly
\* when the declared value is absent or empty.
C28_OneSegmentPerEntry ==
    IsSome(m_args) =>
      LET entries == Unwrap(m_args).content.segments
          base == <<"https:", "/", "/", "example.com", "/", "live", "/">>
          result == Unwrap(m_result)
      IN  /\ result.ok
          /\ Len(result.value) = Len(entries)
          /\ \A i \in 1..Len(entries) :
               /\ result.value[i].url = base \o entries[i].uri
               /\ result.value[i].seq_no = i - 1
               /\ ~IsSome(result.value[i].key_url) <=> AbsentOrEmpty(entries[i].key, "uri")
               /\ ~IsSome(result.value[i].iv) <=> AbsentOrEmpty(entries[i].key, "iv")
               /\ IsSome(result.value[i].key_url)
                    => result.value[i].key_url = Some(base \o Unwrap(Unwrap(entries[i].key).uri))
               /\ IsSome(result.value[i].iv)
                    => result.value[i].iv = Unwrap(entries[i].key).iv

\* seg2.ts stands alone in the text and gets seq_no 0, where behind
\* seg1.ts it gets 1; its key has an empty URI and an empty IV, and the
\* Segment has neither.
C28_Witness ==
    /\ IsSome(m_args)
    /\ Len(Unwrap(m_args).content.segments) = 1
    /\ Unwrap(m_args).content.segments[1]
         = [uri |-> <<"seg2.ts">>, key |-> Some([uri |-> Some(<<>>), iv |-> Some(<<>>)])]
    /\ Unwrap(m_result).value[1].seq_no = 0
    /\ Unwrap(m_result).value[1].key_url = None
    /\ Unwrap(m_result).value[1].iv = None

\* The loop looks at the signal, finds it changed, and the value is the
\* channel it is on already.
ObservesSameValue ==
    /\ pc = "check"
    /\ pc' \in {"resolve", "fetch_m3u8"}
    /\ ui_pc = "loop"
    /\ changed
    /\ signal = current_channel

C29_SameValueIsIgnored ==
    /\ ObservesSameValue
         => (~changed' /\ UNCHANGED <<audio_q, seen_segments, resolved_urls, current_channel>>)
    /\ (pc = "seg" /\ pc' = "check") => UNCHANGED seen_segments

\* C29: a change whose value is the loop's own channel sends no flush and
\* leaves seen_segments, resolved_urls and the channel as they are, and is
\* marked as seen, so that has_changed() is false for the segment loop that
\* follows; the abort of the segment loop marks none of the segments it
\* leaves out.
C29_SameValueChangeIsNoSwitch == [][C29_SameValueIsIgnored]_vars

\* The segment loop was left on a change made while it ran, a second
\* change brought the signal back to the loop's channel, and the loop is
\* about to look: it has segments marked and nothing to flush.
C29_Witness ==
    /\ pc = "check"
    /\ ui_pc = "loop"
    /\ changed
    /\ overwritten
    /\ changed_at = "segment"
    /\ signal = current_channel
    /\ seen_segments # {}
    /\ ~HasFlush(audio_q)

\* C30: after every handled key event state.current_channel is the value
\* the switch signal holds, in every state of the session.
C30_UiChannelIsSignal == ui_channel = signal

\* A key that selects the selected channel writes nothing, and every value
\* written differs from the one held before.
C30_WritesDiffer ==
    /\ ui_channel' = ui_channel => signal' = signal
    /\ signal' # signal => signal' = ui_channel'

C30_EveryWriteDiffers == [][C30_WritesDiffer]_vars

\* The buffers of a history that are non-empty and the first received
\* after a flush.
FirstAfterFlush(h) == {i \in 2..Len(h) : ~is_empty(h[i]) /\ is_empty(h[i - 1])}

Flushes(h) == {i \in 1..Len(h) : is_empty(h[i])}

\* C31: run_audio_thread (player.rs) sends one playback notification for
\* the first non-empty buffer received after a flush and none otherwise:
\* the notifications sent are never more than the flushes received, flushes
\* in a row give one notification, and non-empty buffers received before
\* any flush give none.
C31_OneNotificationPerFlushedStart ==
    /\ t_notified = Cardinality(FirstAfterFlush(t_received))
    /\ t_notified <= Cardinality(Flushes(t_received))
    /\ Flushes(t_received) = {} => t_notified = 0
    /\ waiting_for_new_samples <=> (t_received # <<>> /\ is_empty(t_received[Len(t_received)]))

\* Two flushes in a row, then two non-empty buffers: one notification.
C31_Witness ==
    /\ Len(t_received) = 4
    /\ is_empty(t_received[1]) /\ is_empty(t_received[2])
    /\ ~is_empty(t_received[3]) /\ ~is_empty(t_received[4])
    /\ t_notified = 1

\* The buffers of a history since its last flush.
RECURSIVE SinceLastFlush(_)
SinceLastFlush(h) ==
    IF h = <<>> THEN <<>>
    ELSE IF is_empty(h[Len(h)]) THEN <<>>
    ELSE Append(SinceLastFlush(SubSeq(h, 1, Len(h) - 1)), h[Len(h)])

\* C32: once in its receive loop run_audio_thread exits only when every
\* sender has been dropped and the queue is empty: every buffer sent was
\* received and processed (appended, or used as flush) before the exit, and
\* a receive timeout never makes it exit.
C32_ExitsOnlyWhenDrained ==
    /\ t_pc = "exited" =>
         /\ ~t_tx
         /\ t_queue = <<>>
         /\ t_received = t_sent
         /\ t_last = "disconnected"
    /\ t_sink = SinceLastFlush(t_received)
    /\ t_last = "timeout" => t_pc = "recv"

\* The thread timed out, then received buffers, and exited after the last
\* sender was dropped.
C32_Witness ==
    /\ t_pc = "exited"
    /\ Len(t_received) = MaxBuffers
    /\ t_sink # <<>>
    /\ Len(t_sink) < Len(t_received)

\* C33: for every ChannelKind c, next(prev(c)) = c and prev(next(c)) = c,
\* next(c) and prev(c) differ from c, three applications of next (or of
\* prev) return c, and repeated next from c visits R1, R2 and Fm.
C33_NextPrevCycle ==
    \A c \in ChannelKind :
        /\ next(prev(c)) = c
        /\ prev(next(c)) = c
        /\ next(c) # c
        /\ prev(c) # c
        /\ next(next(next(c))) = c
        /\ prev(prev(prev(c))) = c
        /\ {c, next(c), next(next(c))} = ChannelKind
        /\ ui_channel \in {c, next(c), next(next(c))}

\* The Left key stepped from the first channel to the last, and the stream
\* loop adopted it.
C33_Witness ==
    /\ ui_channel = prev(initial_kind)
    /\ ui_channel = next(next(initial_kind))
    /\ current_channel = ui_channel
    /\ ~changed

\* C34: in run_interactive_player state.is_loading is false at every call
\* to draw: it is cleared before the first draw, and a channel arm sets it
\* and clears it within the same key event, so no draw renders the loading
\* indicator.
C34_NeverDrawnLoading ==
    /\ app_pc = "draw" => ~is_loading
    /\ is_loading => app_pc \in {"setup", "handler", "done"}
    /\ status_drawn # "loading"

\* A channel was switched and the next draw has happened.
C34_Witness ==
    /\ app_pc = "poll"
    /\ app_channel # initial_kind
    /\ animation_frame = 1
    /\ status_drawn = "playing"

====
